---- MODULE Spec2Model ----
(***************************************************************************)
(* MineTrack front-end: HTTP client, dashboard view-model, medical status  *)
(* normalisation, free-text search, pagination and journal export.         *)
(*                                                                         *)
(* The repository holds several revisions of some pages (DashboardPage,    *)
(* MedicalExamList, EmployeesPage).  Each revision that the claims refer   *)
(* to is modelled under its own name; a revision is identified by the file *)
(* that holds it.                                                          *)
(*                                                                         *)
(* Text is modelled as a sequence of one-character strings, so that        *)
(* lower-casing, trimming, splitting and substring search are computed.    *)
(***************************************************************************)
EXTENDS Integers, Sequences, FiniteSets, TLC

VARIABLES
    \* ---- browser session (api/client.ts, context/AuthContext.tsx)
    storage,        \* localStorage: [token, user], "null" when the key is absent
    href,           \* window.location.href (path part)
    calls,          \* apiClient calls: id -> [pc, method, auth, status, outcome, message, attempts]
    \* ---- dashboard (pages/DashboardPage.tsx and its revisions)
    dashRev,        \* revision of DashboardPage that is mounted
    backendRows,    \* what GET /reports/daily-mine-summary answers for the day
    summary,        \* state `summary` : sequence of DailySummaryRow
    summaryFetch,   \* number of daily-summary requests still outstanding
    \* ---- medical status display
    statusView,     \* component that renders the result
    examResult,     \* raw `result` of the exam being rendered
    shownStatus,    \* text shown in the status pill / chip
    colorStatus,    \* colour token of the status pill / chip
    \* ---- search and pagination (Layout search box, paginated tables)
    searchQuery,    \* Layout state `searchQuery`
    people,         \* the employees the backend reports on (rows of every table)
    page,           \* DashboardPage `page`
    rowsPerPage,    \* DashboardPage `rowsPerPage`
    debtsPage,      \* DashboardPage `debtsPage`
    debtsRowsPerPage, \* DashboardPage `debtsRowsPerPage`
    examPage,       \* MedicalExamList `page`
    examRowsPerPage, \* MedicalExamList `rowsPerPage`
    empPage,        \* EmployeesPage `page`
    empRowsPerPage, \* EmployeesPage `rowsPerPage`
    \* ---- journals (TurnstileJournalPage, EsmoJournalPage)
    journal,        \* the mounted journal: [view, rows, loading, pending, gridPage, gridPageSize]
    download,       \* file the last step handed to the browser, NoFile when none
    \* ---- forms and dialogs that submit a request
    submits,        \* action -> [busy, outstanding]
    \* ---- polling timers (setInterval / clearInterval)
    pollers,        \* view -> [mounted, runs, live]: live = ids of running timers
    polled,         \* the timer that fired last: [view, timer]
    \* ---- civil days
    clock,          \* [now, tz]: the current instant and the browser's zone
    dayQuery,       \* the last dashboard query: [rev, day]
    examDay,        \* MedicalExamList: [targetDay, exams, stats, loading]
    \* ---- duration cell of the daily summary table
    totalMinutes,   \* total_minutes of the row that is rendered
    durationCell,   \* text of the cell, "null" before the row is rendered
    \* ---- export buttons of the pages that export
    exporter,       \* the mounted page: [view, hasData, rows, loading], rows = size of the row set
    exported,        \* the file the last export produced: [view, kind, rows]
    \* ---- AdminUsersPage: create-user and reset-password dialogs
    adminForm,      \* [username, password, newPass]: the text fields; a password is its length
    adminRequest,    \* the request in flight: [kind, username, password]
    \* ---- what the user is shown when a fetch or submit fails
    failed,         \* call site -> message of the error its last call ended with, "null" when it succeeded
    surfaced,        \* call site -> [kind, text]: the alert or banner that call produced
    \* ---- time cells of the dashboard tables
    cellTs,         \* the timestamp handed to fmt: [form, instant, offset]
    cellText,        \* what the cell shows: [kind, codes, text]
    \* ---- sync calls to the external medical records
    syncs,           \* call -> [pc, waited]: waited = whole minutes since the call was sent
    \* ---- overlapping fetches of one view
    race,           \* [view, issued, outstanding, arrived, shown]: fetches are numbered in the
                    \* order they are issued; shown = number of the fetch whose data is displayed
    \* ---- the power dialog of the devices page
    power,          \* the power dialog of DevicesPage: dialogDevice, dialogTargetActive,
                    \* powerPassword, showPowerPassword, powerSaving, the toggle request
                    \* in flight (pc, with the values its closure captured) and the last alert
    \* ---- data kept on screen across polls
    display         \* [value, lastOk]: per polled data set, what the view holds and what
                    \* the last fulfilled fetch delivered

vars == <<storage, href, calls, dashRev, backendRows, summary, summaryFetch,
          statusView, examResult, shownStatus, colorStatus,
          searchQuery, people, page, rowsPerPage, debtsPage, debtsRowsPerPage,
          examPage, examRowsPerPage, empPage, empRowsPerPage,
          journal, download, submits, pollers, polled,
          clock, dayQuery, examDay, totalMinutes, durationCell,
          exporter, exported,
          adminForm, adminRequest,
          failed, surfaced,
          cellTs, cellText,
          syncs,
          race,
          power,
          display>>

sessionVars == <<storage, href, calls>>
dashVars    == <<dashRev, backendRows, summary, summaryFetch>>
statusVars  == <<statusView, examResult, shownStatus, colorStatus>>
pageVars    == <<page, rowsPerPage, debtsPage, debtsRowsPerPage,
                 examPage, examRowsPerPage, empPage, empRowsPerPage>>
searchVars  == <<searchQuery, people, pageVars>>
journalVars == <<journal, download>>
formVars    == <<submits>>
timerVars   == <<pollers, polled>>
dayVars     == <<clock, dayQuery, examDay>>
durVars     == <<totalMinutes, durationCell>>
exportVars  == <<exporter, exported>>
adminVars   == <<adminForm, adminRequest>>
noticeVars  == <<failed, surfaced>>
cellVars    == <<cellTs, cellText>>
syncVars    == <<syncs>>
raceVars    == <<race>>
powerVars   == <<power>>
displayVars == <<display>>

(***************************************************************************)
(* Bounds of the model                                                     *)
(***************************************************************************)
MaxCalls == 2           \* apiClient calls that can be in flight together
MaxSummaryRows == 2     \* rows in one daily-summary response
MaxTime == 2            \* distinct instants of the day a timestamp can take
MaxPending == 2         \* fetches of one view that can be outstanding together
MaxQueryLen == 3        \* characters typed into the search box
MaxPeople == 2          \* rows per table when the search itself is examined
MaxDashRows == 11       \* rows per dashboard table when paging is examined
MaxEmpRows == 26        \* rows of the employees table when paging is examined
MaxJournalRows == 26    \* rows a journal fetch can return
MaxEffectRuns == 2      \* times the polling effect of one view can run
MaxInstant == 30        \* hours the clock can advance
MaxExams == 2           \* exams in one answer of the exam list fetch
MaxMinutes == 150       \* total_minutes of a summary row
MaxExportRows == 3      \* rows a fetch of an exporting page can return
MaxNameLen == 4         \* characters typed into the username field
MaxPassLen == 7         \* characters typed into a password field
MaxWait == 5            \* minutes a sync call is followed
MaxFetches == 4         \* fetches one view issues
MaxSnapshot == 2       \* distinct non-empty answers of one endpoint

(***************************************************************************)
(* Generic helpers                                                         *)
(***************************************************************************)
Max(a, b) == IF a >= b THEN a ELSE b

\* `const v = x; return F(v)`: x is evaluated once
Bind(x, F(_)) == CHOOSE r \in {F(v) : v \in {x}} : TRUE

Null == "null"

\* ---- values the other parts hold while one part is exercised
SessionIdle == /\ storage = [token |-> Null, user |-> Null]
               /\ href = "/login"
               /\ calls = [i \in 1..MaxCalls |->
                             [pc |-> "idle", method |-> "GET", auth |-> Null,
                              status |-> 0, outcome |-> "none", message |-> "none",
                   attempts |-> 0]]

(***************************************************************************)
(* HTTP client: api/client.ts  (src/unnamed/part_002)                      *)
(***************************************************************************)
\* one method that carries no body and one that carries one; PUT goes through
\* request() as POST does and DELETE as GET does
Methods  == {"GET", "POST"}
Statuses == {200, 204, 401, 500}
Bodies   == {"", "detail"}
Tokens   == {"tokA"}
Users    == {"admin"}

\* mutant: the token is read once, when the module is loaded
getToken_cached == CHOOSE t \in Tokens : TRUE

\* getToken(): the value stored under minetrack_token
getToken == storage.token

\* res.ok
ResOk(status) == status >= 200 /\ status <= 299

\* mutant: the status is left out of the fallback message
HttpStatusText_noStatus(status) == "HTTP error"

\* `HTTP ${res.status}`
HttpStatusText(status) == "HTTP " \o ToString(status)

\* request(): lines 9-14, up to the await of fetch(); `attempts` counts the
\* fetch() invocations made for the call
RequestSend(id, method) ==
    /\ calls[id].pc # "inflight"
    /\ LET token == getToken
       IN calls' = [calls EXCEPT ![id] =
                      [pc |-> "inflight", method |-> method,
                       auth |-> IF token # Null THEN "Bearer " \o token ELSE Null,
                       status |-> 0, outcome |-> "none", message |-> "none",
                       attempts |-> 1]]
    /\ UNCHANGED <<storage, href>>

\* mutant: the 401 branch forgets to clear the token
RequestSettle_keepToken(id, status, body) ==
    /\ calls[id].pc = "inflight"
    /\ IF status = 401
       THEN /\ href' = "/login"
            /\ UNCHANGED storage
            /\ calls' = [calls EXCEPT ![id].pc = "done", ![id].status = status,
                                      ![id].outcome = "rejected",
                                      ![id].message = "Unauthorized"]
       ELSE /\ UNCHANGED <<storage, href>>
            /\ calls' = [calls EXCEPT ![id].pc = "done", ![id].status = status,
                                      ![id].outcome = "resolved",
                                      ![id].message = "none"]

\* request(): lines 16-26, what happens when fetch() resolves with a response
RequestSettle(id, status, body) ==
    /\ calls[id].pc = "inflight"
    /\ IF status = 401
       THEN /\ storage' = [storage EXCEPT !.token = Null]
            /\ href' = "/login"
            /\ calls' = [calls EXCEPT ![id].pc = "done", ![id].status = status,
                                      ![id].outcome = "rejected",
                                      ![id].message = "Unauthorized"]
       ELSE IF ~ResOk(status)
       THEN /\ UNCHANGED <<storage, href>>
            /\ calls' = [calls EXCEPT ![id].pc = "done", ![id].status = status,
                                      ![id].outcome = "rejected",
                                      ![id].message = IF body # "" THEN body
                                                      ELSE HttpStatusText(status)]
       ELSE /\ UNCHANGED <<storage, href>>
            /\ calls' = [calls EXCEPT ![id].pc = "done", ![id].status = status,
                                      ![id].outcome = IF status = 204 THEN "resolved-null"
                                                      ELSE "resolved-json",
                                      ![id].message = "none"]

\* mutant: a transport error is answered with a second fetch()
RequestTransportError_retry(id) ==
    /\ calls[id].pc = "inflight"
    /\ IF calls[id].attempts < 2
       THEN calls' = [calls EXCEPT ![id].attempts = @ + 1]
       ELSE calls' = [calls EXCEPT ![id].pc = "done", ![id].status = 0,
                                   ![id].outcome = "rejected", ![id].message = "network"]
    /\ UNCHANGED <<storage, href>>

\* request(): fetch() itself rejects (no response at all); the rejection is
\* not caught, so the call ends with it
RequestTransportError(id) ==
    /\ calls[id].pc = "inflight"
    /\ calls' = [calls EXCEPT ![id].pc = "done", ![id].status = 0,
                              ![id].outcome = "rejected", ![id].message = "network"]
    /\ UNCHANGED <<storage, href>>

\* AuthProvider.login, the successful path (lines 33-37) followed by
\* LoginPage's navigate("/dashboard")
LoginOk(user, tok) ==
    /\ href = "/login"
    /\ storage' = [token |-> tok, user |-> user]
    /\ href' = "/dashboard"
    /\ UNCHANGED calls

\* AuthProvider.logout (lines 40-45)
Logout ==
    /\ storage.token # Null
    /\ storage' = [token |-> Null, user |-> Null]
    /\ UNCHANGED <<href, calls>>

\* the user opens the login screen (route /login of App)
OpenLogin ==
    /\ href # "/login"
    /\ href' = "/login"
    /\ UNCHANGED <<storage, calls>>


(***************************************************************************)
(* Text: a string is a sequence of one-character strings                   *)
(***************************************************************************)
\* the letters that occur in the modelled texts
LowerChar(c) ==
    CASE c = "A" -> "a"
      [] c = "B" -> "b"
      [] c = "C" -> "c"
      [] c = "D" -> "d"
      [] c = "E" -> "e"
      [] c = "F" -> "f"
      [] c = "I" -> "i"
      [] c = "J" -> "j"
      [] c = "K" -> "k"
      [] c = "L" -> "l"
      [] c = "M" -> "m"
      [] c = "N" -> "n"
      [] c = "O" -> "o"
      [] c = "P" -> "p"
      [] c = "R" -> "r"
      [] c = "S" -> "s"
      [] c = "T" -> "t"
      [] c = "U" -> "u"
      [] c = "V" -> "v"
      [] c = "W" -> "w"
      [] OTHER -> c

UpperChar(c) ==
    CASE c = "a" -> "A"
      [] c = "b" -> "B"
      [] c = "c" -> "C"
      [] c = "d" -> "D"
      [] c = "e" -> "E"
      [] c = "f" -> "F"
      [] c = "i" -> "I"
      [] c = "j" -> "J"
      [] c = "k" -> "K"
      [] c = "l" -> "L"
      [] c = "m" -> "M"
      [] c = "n" -> "N"
      [] c = "o" -> "O"
      [] c = "p" -> "P"
      [] c = "r" -> "R"
      [] c = "s" -> "S"
      [] c = "t" -> "T"
      [] c = "u" -> "U"
      [] c = "v" -> "V"
      [] c = "w" -> "W"
      [] OTHER -> c

\* String.prototype.toLowerCase
RECURSIVE toLowerCase(_)
toLowerCase(s) ==
    Bind(s, LAMBDA x : IF x = <<>> THEN <<>>
                       ELSE Bind(x[1], LAMBDA c : <<LowerChar(c)>>) \o toLowerCase(Tail(x)))

RECURSIVE toUpperCase(_)
toUpperCase(s) ==
    Bind(s, LAMBDA x : IF x = <<>> THEN <<>>
                       ELSE Bind(x[1], LAMBDA c : <<UpperChar(c)>>) \o toUpperCase(Tail(x)))

Capitalize(s) == Bind(s, LAMBDA x : IF x = <<>> THEN <<>>
                                    ELSE toUpperCase(<<x[1]>>) \o Tail(x))

(***************************************************************************)
(* Medical exam status normalisation                                       *)
(*   MedicalExamList  (src/unnamed/part_008, components/MedicalExamList.tsx)*)
(*   EsmoJournalPage  (src/unnamed/part_006)                               *)
(*   MedicalExamList, Chip revision (src/unnamed/part_007)                 *)
(***************************************************************************)
S_passed        == <<"p","a","s","s","e","d">>
S_review        == <<"r","e","v","i","e","w">>
S_manual_review == <<"m","a","n","u","a","l","_","r","e","v","i","e","w">>
S_korik_apos    == <<"k","o","'","r","i","k">>
S_korik         == <<"k","o","r","i","k">>
S_failed        == <<"f","a","i","l","e","d">>
S_fail          == <<"f","a","i","l">>
S_rejected      == <<"r","e","j","e","c","t","e","d">>
S_dash          == <<"-">>

ReviewVariants == {S_review, S_manual_review, S_korik_apos, S_korik}
FailedVariants == {S_failed, S_fail, S_rejected}
Recognized     == {S_passed} \cup ReviewVariants \cup FailedVariants

\* result strings the backend is taken to emit: the observed variants in three
\* letter cases, the empty string, and values outside the list
UnrecognizedWords == {<<>>, <<"o","k">>, <<"p","a","s","s">>,
                      <<"p","a","s","s","e","d"," ">>,
                      <<"p","e","n","d","i","n","g">>,
                      <<"n","o","n","e">>}
RawResults == UNION {{w, toUpperCase(w), Capitalize(w)} :
                        w \in Recognized \cup UnrecognizedWords}

\* a localized label t("status.<key>")
Label(key) == [kind |-> "label", key |-> key, raw |-> <<>>]
\* text shown as it is
Verbatim(txt) == [kind |-> "text", key |-> "none", raw |-> txt]

\* toDisplayStatus: part_008 138-144, part_006 290-296, MedicalExamList.tsx 73-79
toDisplayStatus(statusRaw) ==
    LET s == toLowerCase(statusRaw)
    IN IF s = S_passed THEN Label("passed")
       ELSE IF s \in ReviewVariants THEN Label("review")
       ELSE IF s \in FailedVariants THEN Label("failed")
       ELSE IF statusRaw # <<>> THEN Verbatim(statusRaw) ELSE Verbatim(S_dash)

\* toColorStatus: part_008 146-152, MedicalExamList.tsx 81-87
toColorStatus(statusRaw) ==
    LET s == toLowerCase(statusRaw)
    IN IF s = S_passed THEN "ACCEPTED"
       ELSE IF s \in ReviewVariants THEN "WARNING"
       ELSE IF s \in FailedVariants THEN "REJECTED"
       ELSE "WARNING"

\* toColorStatus of EsmoJournalPage: part_006 297-303 (ko'rik / korik are not
\* listed and reach the default)
toColorStatusJournal(statusRaw) ==
    LET s == toLowerCase(statusRaw)
    IN IF s = S_passed THEN "ACCEPTED"
       ELSE IF s \in {S_review, S_manual_review} THEN "WARNING"
       ELSE IF s \in FailedVariants THEN "REJECTED"
       ELSE "WARNING"

\* Chip colour of the older MedicalExamList: part_007 80
chipColor(result) == IF result = S_passed THEN "success" ELSE "error"

StatusViews == {"MedicalExamList", "EsmoJournalPage", "MedicalExamListChip"}

\* the status cell of one exam row, as the view renders it
RenderStatus(view, raw) ==
    /\ statusView' = view
    /\ examResult' = raw
    /\ shownStatus' = IF view = "MedicalExamListChip" THEN Verbatim(raw)
                      ELSE toDisplayStatus(raw)
    /\ colorStatus' = CASE view = "MedicalExamList"     -> toColorStatus(raw)
                        [] view = "EsmoJournalPage"     -> toColorStatusJournal(raw)
                        [] view = "MedicalExamListChip" -> chipColor(raw)

StatusIdle == /\ statusView = "none"
              /\ examResult = <<>>
              /\ shownStatus = Verbatim(<<>>)
              /\ colorStatus = "none"


(***************************************************************************)
(* Dashboard: daily summary, sort order, inside/outside status, KPIs       *)
(*   part_004          src/unnamed/part_004                                *)
(*   part_005          src/unnamed/part_005                                *)
(*   DashboardPage.tsx src/frontend/src/pages/DashboardPage.tsx            *)
(***************************************************************************)
DashRevisions == {"part_004", "part_005", "DashboardPage.tsx"}

NoTs == -1                      \* a timestamp that is null
Times == 1..MaxTime             \* instants of the target day, in time order
\* what the backend reports for one employee: is_inside follows the last event
\* of the day (an entry with no exit after it means inside)
BackendIsInside(last_in, last_out, is_inside) ==
    IF last_out = NoTs THEN is_inside
    ELSE IF last_in = NoTs THEN ~is_inside
    ELSE IF last_out > last_in THEN ~is_inside
    ELSE IF last_in > last_out THEN is_inside
    ELSE TRUE

\* the timestamps and the state of one employee
Movements ==
    {m \in [last_in : {NoTs} \cup Times, last_out : {NoTs} \cup Times,
            is_inside : BOOLEAN] :
        BackendIsInside(m.last_in, m.last_out, m.is_inside)}

\* entered_today / exited_today as the backend sets them when it sends them:
\* the flag tells whether the day has an entry (an exit)
BackendFlag(ts, sent) ==
    IF ~sent THEN "undefined" ELSE IF ts # NoTs THEN "true" ELSE "false"

\* DailySummaryRow (api/dashboard.ts 30-37; part_004 and part_005 also read
\* entered_today and exited_today)
DailySummaryRow(no, m, sent) ==
    [employee_no |-> no, last_in |-> m.last_in, last_out |-> m.last_out,
     is_inside |-> m.is_inside,
     entered_today |-> BackendFlag(m.last_in, sent),
     exited_today |-> BackendFlag(m.last_out, sent)]

\* the backend that part_004 talks to sends the two flags on every row; the one
\* of DashboardPage.tsx sends none (its DailySummaryRow has no such fields);
\* part_005 provides for both
FlagsSent(rev) == CASE rev = "part_004"          -> {TRUE}
                    [] rev = "DashboardPage.tsx" -> {FALSE}
                    [] OTHER                     -> BOOLEAN

\* responses of n rows, one row per employee
RECURSIVE ResponsesOfLen(_, _)
ResponsesOfLen(n, sent) ==
    IF n = 0 THEN {<<>>}
    ELSE {Append(resp, DailySummaryRow(n, m, sent)) :
              resp \in ResponsesOfLen(n - 1, sent), m \in Movements}

\* responses of GET /reports/daily-mine-summary
SummaryResponses(rev) ==
    UNION {ResponsesOfLen(n, sent) : n \in 0..MaxSummaryRows, sent \in FlagsSent(rev)}

\* new Date(iso).getTime() of a non-null timestamp
GetTime(ts) == ts

\* getLastActivityMs: part_004 76-80, part_005 76-80
getLastActivityMs(row) ==
    LET inTs  == IF row.last_in # NoTs THEN GetTime(row.last_in) ELSE 0
        outTs == IF row.last_out # NoTs THEN GetTime(row.last_out) ELSE 0
    IN Max(inTs, outTs)

\* the sort key of DashboardPage.tsx 66-70: last_in only
lastInMs(row) == IF row.last_in # NoTs THEN GetTime(row.last_in) ELSE 0

\* Array.prototype.sort with the comparator (a, b) => key(b) - key(a):
\* descending by key, equal keys keep their order (the sort is stable)
SortDescByKeys(rows, keys) ==
    LET n == Len(rows)
        rank(i) == Cardinality({j \in 1..n : keys[j] > keys[i]})
                   + Cardinality({j \in 1..i : keys[j] = keys[i]})
    IN [p \in 1..n |-> rows[CHOOSE i \in 1..n : rank(i) = p]]

\* the .then of fetchDailyMineSummary: part_004 116-124, part_005 130-138,
\* DashboardPage.tsx 64-72
sortSummary(rev, data) ==
    IF rev = "DashboardPage.tsx"
    THEN SortDescByKeys(data, [i \in 1..Len(data) |-> lastInMs(data[i])])
    ELSE SortDescByKeys(data, [i \in 1..Len(data) |-> getLastActivityMs(data[i])])

\* load(): the daily-summary request goes out (on mount and on every tick of
\* the 30 s timer)
DashLoad ==
    /\ summaryFetch < MaxPending
    /\ summaryFetch' = summaryFetch + 1
    /\ UNCHANGED <<dashRev, backendRows, summary>>

\* the request resolves with the day's rows: sort, then setSummary(sorted)
SummaryLoaded ==
    /\ summaryFetch > 0
    /\ summaryFetch' = summaryFetch - 1
    /\ summary' = sortSummary(dashRev, backendRows)
    /\ UNCHANGED <<dashRev, backendRows>>

\* the request rejects: .catch(() => { })
SummaryFailed ==
    /\ summaryFetch > 0
    /\ summaryFetch' = summaryFetch - 1
    /\ UNCHANGED <<dashRev, backendRows, summary>>

\* mutant: the pill shows the opposite state
statusPill_inverted(r) == IF r.is_inside THEN "OUTSIDE" ELSE "INSIDE"

\* colorStatus of the StatusPill in a summary row: part_004 240
statusPill(r) == IF r.is_inside THEN "INSIDE" ELSE "OUTSIDE"

\* toTashkentDay(ts) === todayTashkent, every modelled instant being of today
IsToday(ts) == ts # NoTs

\* part_004 160-161
insideCount_004  == Cardinality({i \in 1..Len(summary) : summary[i].entered_today = "true"})
outsideCount_004 == Cardinality({i \in 1..Len(summary) : summary[i].exited_today = "true"})

\* part_005 150-157
enteredCount_005 ==
    Cardinality({i \in 1..Len(summary) :
        IF summary[i].entered_today # "undefined" THEN summary[i].entered_today = "true"
        ELSE IsToday(summary[i].last_in)})
exitedCount_005 ==
    Cardinality({i \in 1..Len(summary) :
        IF summary[i].exited_today # "undefined" THEN summary[i].exited_today = "true"
        ELSE IsToday(summary[i].last_out)})

\* DashboardPage.tsx 83-85
insideCount_tsx == Cardinality({i \in 1..Len(summary) : summary[i].is_inside})
exitedCount_tsx == Cardinality({i \in 1..Len(summary) : ~summary[i].is_inside})

\* the two numbers of the inside / outside KPI card
InsideKpi  == CASE dashRev = "part_004" -> insideCount_004
                [] dashRev = "part_005" -> enteredCount_005
                [] OTHER                -> insideCount_tsx
OutsideKpi == CASE dashRev = "part_004" -> outsideCount_004
                [] dashRev = "part_005" -> exitedCount_005
                [] OTHER                -> exitedCount_tsx

DashIdle == /\ dashRev = "part_004"
            /\ backendRows = <<>>
            /\ summary = <<>>
            /\ summaryFetch = 0

InitDashboard == /\ dashRev \in DashRevisions
                 /\ backendRows \in SummaryResponses(dashRev)
                 /\ summary = <<>>
                 /\ summaryFetch = 0


(***************************************************************************)
(* Text operations used by the search                                      *)
(***************************************************************************)
IsSpace(c) == c = " "

\* String.prototype.trim
RECURSIVE TrimStart(_)
TrimStart(s) ==
    Bind(s, LAMBDA x : IF x # <<>> /\ IsSpace(Head(x)) THEN TrimStart(Tail(x)) ELSE x)

RECURSIVE TrimEnd(_)
TrimEnd(s) ==
    Bind(s, LAMBDA x : IF x # <<>> /\ IsSpace(x[Len(x)])
                       THEN TrimEnd(SubSeq(x, 1, Len(x) - 1)) ELSE x)

trim(s) == TrimEnd(TrimStart(s))

\* s.split(/\s+/): the pieces between runs of white space (a leading or a
\* trailing run leaves an empty piece at that end)
RECURSIVE SplitWs(_, _, _)
SplitWs(s, cur, inGap) ==
    Bind(<<s, cur>>, LAMBDA a :
        IF a[1] = <<>> THEN <<a[2]>>
        ELSE IF IsSpace(Head(a[1]))
             THEN IF inGap THEN SplitWs(Tail(a[1]), a[2], TRUE)
                  ELSE <<a[2]>> \o SplitWs(Tail(a[1]), <<>>, TRUE)
             ELSE SplitWs(Tail(a[1]), Append(a[2], Head(a[1])), FALSE))

split(s) == SplitWs(s, <<>>, FALSE)

\* .filter(Boolean) on an array of strings: the empty strings go
filterBoolean(pieces) == SelectSeq(pieces, LAMBDA t : t # <<>>)

\* String.prototype.includes
includes(h, t) ==
    \E hay \in {h}, needle \in {t} :
        \E i \in 0..(Len(hay) - Len(needle)) : SubSeq(hay, i + 1, i + Len(needle)) = needle

\* `${a} ${b}`
Sp(a, b) == a \o <<" ">> \o b

\* parts.join(" ")
RECURSIVE join(_)
join(parts) ==
    Bind(parts, LAMBDA ps : IF ps = <<>> THEN <<>>
                            ELSE IF Len(ps) = 1 THEN ps[1]
                            ELSE Sp(ps[1], join(Tail(ps))))

\* mutant: one matching term is enough
every_some(terms, haystack) ==
    \E ts \in {terms}, hay \in {haystack} : \E k \in 1..Len(ts) : includes(hay, ts[k])

\* terms.every(term => haystack.includes(term))
every(terms, haystack) ==
    \E ts \in {terms}, hay \in {haystack} : \A k \in 1..Len(ts) : includes(hay, ts[k])

(***************************************************************************)
(* The employees behind the tables                                         *)
(***************************************************************************)
QueryChars == {"a", "B", " "}

RECURSIVE SeqsUpTo(_, _)
SeqsUpTo(S, n) == IF n = 0 THEN {<<>>}
                  ELSE LET shorter == SeqsUpTo(S, n - 1)
                       IN shorter \cup {Append(q, c) : q \in shorter, c \in S}

Queries == SeqsUpTo(QueryChars, MaxQueryLen)

\* the queries used when paging is examined
PagingQueries == {<<>>, <<"a">>, <<"B">>, <<"a", " ", "b">>}

\* an employee as the backend knows it.  `linked` tells whether exam rows
\* carry the nested employee object, `debt` whether a tool is checked out.
Pool == << [last_name |-> <<"a">>, first_name |-> <<"b">>, patronymic |-> <<>>,
            employee_no |-> <<"B", "b">>, linked |-> TRUE, debt |-> TRUE],
           [last_name |-> <<"A">>, first_name |-> <<"a">>, patronymic |-> <<"a">>,
            employee_no |-> <<"a", "a">>, linked |-> TRUE, debt |-> FALSE],
           [last_name |-> <<"A", "b">>, first_name |-> <<"a">>, patronymic |-> <<>>,
            employee_no |-> <<"b">>, linked |-> FALSE, debt |-> TRUE] >>

\* n employees, taken from the pool in turn
Directory(n) == [i \in 1..n |-> Pool[((i - 1) % Len(Pool)) + 1]]

\* every list of at most MaxPeople employees
SmallDirectories == UNION {[1..n -> {Pool[k] : k \in 1..Len(Pool)}] : n \in 0..MaxPeople}

\* full_name as the report endpoints send it
FullName(p) == join(filterBoolean(<<p.last_name, p.first_name, p.patronymic>>))

\* rows of GET /reports/daily-mine-summary and /reports/tool-debts
dailySummary == [i \in 1..Len(people) |->
                    [id |-> i, full_name |-> FullName(people[i]),
                     employee_no |-> people[i].employee_no]]

dailyDebts == SelectSeq(dailySummary, LAMBDA r : people[r.id].debt)

\* rows of GET /medical/exams: MedicalExam (api/medical.ts 3-21)
exams == [i \in 1..Len(people) |->
            [id |-> i, employee_id |-> i, employee_full_name |-> <<>>,
             has_employee |-> people[i].linked,
             employee |-> [employee_no |-> people[i].employee_no,
                           first_name |-> people[i].first_name,
                           last_name |-> people[i].last_name,
                           patronymic |-> people[i].patronymic]]]

\* rows of GET /employees
employees == [i \in 1..Len(people) |->
                [id |-> i, employee_no |-> people[i].employee_no,
                 first_name |-> people[i].first_name,
                 last_name |-> people[i].last_name,
                 patronymic |-> people[i].patronymic]]

(***************************************************************************)
(* Free-text search                                                        *)
(*   DashboardPage    src/unnamed/part_004 138-158                         *)
(*   MedicalExamList  src/unnamed/part_008 34-40, 115-124                  *)
(*   EmployeesPage    src/frontend/src/pages/EmployeesPage.tsx 84-89       *)
(***************************************************************************)
\* part_004 138
normalizedSearch(query) == toLowerCase(trim(query))

\* part_004 142-149 (filteredSummary) and 151-158 (filteredDebts)
filterRows(rows, query) ==
    Bind(filterBoolean(split(normalizedSearch(query))), LAMBDA terms :
        IF Len(terms) = 0 THEN rows
        ELSE SelectSeq(rows, LAMBDA r :
                every(terms, toLowerCase(Sp(r.full_name, r.employee_no)))))

filteredSummary(query) == filterRows(dailySummary, query)
filteredDebts(query)   == filterRows(dailyDebts, query)

\* `ID: ${exam.employee_id}`
IdText(n) == <<"I", "D", ":", " ">> \o <<ToString(n)>>

\* part_008 34-40
buildEmployeeName(exam) ==
    IF exam.employee_full_name # <<>> THEN exam.employee_full_name
    ELSE IF ~exam.has_employee THEN IdText(exam.employee_id)
    ELSE join(filterBoolean(<<exam.employee.last_name, exam.employee.first_name,
                              exam.employee.patronymic>>))

\* part_008 115-124
filteredExams(query) ==
    Bind(filterBoolean(split(toLowerCase(trim(query)))), LAMBDA terms :
        IF Len(terms) = 0 THEN exams
        ELSE SelectSeq(exams, LAMBDA exam :
                LET fullName   == buildEmployeeName(exam)
                    employeeNo == IF exam.has_employee THEN exam.employee.employee_no
                                  ELSE <<>>
                IN every(terms, toLowerCase(Sp(fullName, employeeNo)))))

\* EmployeesPage.tsx 84-89: the whole query is looked up as one piece
filteredEmployees(query) ==
    SelectSeq(employees, LAMBDA e :
        IF query = <<>> THEN TRUE
        ELSE \E lowerQuery \in {toLowerCase(query)} :
                LET fullName == toLowerCase(Sp(Sp(e.last_name, e.first_name), e.patronymic))
                IN includes(fullName, lowerQuery)
                   \/ includes(toLowerCase(e.employee_no), lowerQuery))


(***************************************************************************)
(* Pagination of the tables                                                *)
(***************************************************************************)
\* Math.max(0, Math.ceil(count / rowsPerPage) - 1)
LastPage(count, rpp) == Max(0, ((count + rpp - 1) \div rpp) - 1)

\* pages the back / next buttons of TablePagination can ask for
PageButtons(p, count, rpp) ==
    {q \in {p - 1, p + 1} : q >= 0 /\ (q < p \/ p < LastPage(count, rpp))}

\* part_008 131-136: the effect that pulls the page back into range
clampPage(p, count, rpp) ==
    LET maxPage == LastPage(count, rpp) IN IF p > maxPage THEN maxPage ELSE p

Routes == {"/dashboard", "/employees"}

\* a page that has just been mounted
FreshPages == /\ page = 0             /\ rowsPerPage = 10
              /\ debtsPage = 0        /\ debtsRowsPerPage = 5
              /\ examPage = 0         /\ examRowsPerPage = 5
              /\ empPage = 0          /\ empRowsPerPage = 25

\* Sidebar navigate(item.path): the old page is unmounted, the new one starts
\* from its initial state; the search box of the layout keeps its text
Navigate(path) ==
    /\ href # path
    /\ href' = path
    /\ people' = <<>>
    /\ page' = 0             /\ rowsPerPage' = 10
    /\ debtsPage' = 0        /\ debtsRowsPerPage' = 5
    /\ examPage' = 0         /\ examRowsPerPage' = 5
    /\ empPage' = 0          /\ empRowsPerPage' = 25
    /\ UNCHANGED <<storage, calls, searchQuery>>

\* the page's fetches resolve: set...(data); MedicalExamList then re-checks
\* its page
TablesLoaded(ps) ==
    /\ people' = ps
    /\ UNCHANGED <<href, storage, calls, searchQuery, page, rowsPerPage, debtsPage,
                   debtsRowsPerPage, examRowsPerPage, empPage, empRowsPerPage>>
    /\ examPage' = IF href = "/dashboard"
                   THEN clampPage(examPage, Len(filteredExams(searchQuery))', examRowsPerPage)
                   ELSE examPage

\* TopBar onChange -> setSearchQuery, and the effects that depend on it:
\* part_004 133-136 (setPage(0); setDebtsPage(0)), part_008 104-106 (setPage(0));
\* EmployeesPage has no such effect
SetSearchQuery(q) ==
    /\ q # searchQuery
    /\ searchQuery' = q
    /\ IF href = "/dashboard"
       THEN /\ page' = 0
            /\ debtsPage' = 0
            /\ examPage' = 0
            /\ UNCHANGED empPage
       ELSE UNCHANGED <<page, debtsPage, examPage, empPage>>
    /\ UNCHANGED <<href, storage, calls, people, rowsPerPage, debtsRowsPerPage,
                   examRowsPerPage, empRowsPerPage>>

\* part_004 257: onPageChange of the summary table
SummaryChangePage(newPage) ==
    /\ href = "/dashboard"
    /\ newPage \in PageButtons(page, Len(filteredSummary(searchQuery)), rowsPerPage)
    /\ page' = newPage
    /\ UNCHANGED <<href, storage, calls, searchQuery, people, rowsPerPage, debtsPage,
                   debtsRowsPerPage, examPage, examRowsPerPage, empPage, empRowsPerPage>>

\* part_004 258-261: onRowsPerPageChange of the summary table
SummaryChangeRowsPerPage(n) ==
    /\ href = "/dashboard"
    /\ n # rowsPerPage
    /\ rowsPerPage' = n
    /\ page' = 0
    /\ UNCHANGED <<href, storage, calls, searchQuery, people, debtsPage,
                   debtsRowsPerPage, examPage, examRowsPerPage, empPage, empRowsPerPage>>

\* part_004 293
DebtsChangePage(newPage) ==
    /\ href = "/dashboard"
    /\ newPage \in PageButtons(debtsPage, Len(filteredDebts(searchQuery)), debtsRowsPerPage)
    /\ debtsPage' = newPage
    /\ UNCHANGED <<href, storage, calls, searchQuery, people, page, rowsPerPage,
                   debtsRowsPerPage, examPage, examRowsPerPage, empPage, empRowsPerPage>>

\* part_004 294-297
DebtsChangeRowsPerPage(n) ==
    /\ href = "/dashboard"
    /\ n # debtsRowsPerPage
    /\ debtsRowsPerPage' = n
    /\ debtsPage' = 0
    /\ UNCHANGED <<href, storage, calls, searchQuery, people, page, rowsPerPage,
                   examPage, examRowsPerPage, empPage, empRowsPerPage>>

\* part_008 225
ExamChangePage(newPage) ==
    /\ href = "/dashboard"
    /\ newPage \in PageButtons(examPage, Len(filteredExams(searchQuery)), examRowsPerPage)
    /\ examPage' = newPage
    /\ UNCHANGED <<href, storage, calls, searchQuery, people, page, rowsPerPage,
                   debtsPage, debtsRowsPerPage, examRowsPerPage, empPage, empRowsPerPage>>

\* part_008 226-229
ExamChangeRowsPerPage(n) ==
    /\ href = "/dashboard"
    /\ n # examRowsPerPage
    /\ examRowsPerPage' = n
    /\ examPage' = 0
    /\ UNCHANGED <<href, storage, calls, searchQuery, people, page, rowsPerPage,
                   debtsPage, debtsRowsPerPage, empPage, empRowsPerPage>>

\* EmployeesPage.tsx 178
EmployeesChangePage(newPage) ==
    /\ href = "/employees"
    /\ newPage \in PageButtons(empPage, Len(filteredEmployees(searchQuery)), empRowsPerPage)
    /\ empPage' = newPage
    /\ UNCHANGED <<href, storage, calls, searchQuery, people, page, rowsPerPage,
                   debtsPage, debtsRowsPerPage, examPage, examRowsPerPage, empRowsPerPage>>

\* EmployeesPage.tsx 179-182
EmployeesChangeRowsPerPage(n) ==
    /\ href = "/employees"
    /\ n # empRowsPerPage
    /\ empRowsPerPage' = n
    /\ empPage' = 0
    /\ UNCHANGED <<href, storage, calls, searchQuery, people, page, rowsPerPage,
                   debtsPage, debtsRowsPerPage, examPage, examRowsPerPage>>

SearchIdle == /\ searchQuery = <<>>
              /\ people = <<>>
              /\ FreshPages


(***************************************************************************)
(* Journals and their CSV export                                           *)
(*   TurnstileJournalPage  src/frontend/src/App.tsx 53-232                 *)
(*   EsmoJournalPage       src/unnamed/part_006 239-525                    *)
(***************************************************************************)
JournalViews == {"turnstile", "esmo"}

NoFile == [view |-> "none", kind |-> "none", text |-> <<>>]

\* pageSizeOptions of the DataGrid: App.tsx 196, part_006 510
GridPageSizes == {25, 50, 100}

\* EventRow / MedicalExam rows of a journal response, one per employee taken
\* from the pool in turn
JournalRows(n) ==
    [i \in 1..n |->
        LET p == Pool[((i - 1) % Len(Pool)) + 1]
        IN [id |-> i, employee_id |-> i, has_employee |-> p.linked,
            last_name |-> p.last_name, first_name |-> p.first_name,
            patronymic |-> p.patronymic, employee_no |-> p.employee_no,
            time |-> <<"t", ToString(i)>>, device |-> <<"d">>,
            status |-> IF p.debt THEN <<"A","C","C","E","P","T","E","D">>
                       ELSE <<"R","E","J","E","C","T","E","D">>,
            result |-> IF p.debt THEN S_passed ELSE S_korik_apos]]

JournalResponses == {JournalRows(n) : n \in 0..MaxJournalRows}

\* `"${value}"`
Quoted(v) == <<"\"">> \o v \o <<"\"">>

\* cells.join(";")
RECURSIVE joinSemi(_)
joinSemi(cells) == IF Len(cells) = 1 THEN cells[1]
                   ELSE cells[1] \o <<";">> \o joinSemi(Tail(cells))

\* lines.join("\n")
RECURSIVE joinLines(_)
joinLines(lines) == IF lines = <<>> THEN <<>>
                    ELSE IF Len(lines) = 1 THEN lines[1]
                    ELSE lines[1] \o <<"\n">> \o joinLines(Tail(lines))

\* the text a status label stands for in the file
LabelText(d) == IF d.kind = "label" THEN <<"#", d.key>> ELSE d.raw

\* App.tsx 93 / part_006 363-366
getFullName(view, r) ==
    IF view = "esmo" /\ ~r.has_employee THEN IdText(r.employee_id)
    ELSE join(filterBoolean(<<r.last_name, r.first_name, r.patronymic>>))

\* one line of the file: App.tsx 99-100, part_006 379-380
csvRow(view, r) ==
    IF view = "turnstile"
    THEN joinSemi(<<Quoted(getFullName(view, r)), Quoted(r.employee_no),
                    Quoted(r.time), Quoted(r.device), Quoted(r.status)>>)
    ELSE joinSemi(<<Quoted(getFullName(view, r)), Quoted(r.time), Quoted(r.device),
                    Quoted(<<"-">>), Quoted(<<"-">>), Quoted(<<"-">>),
                    Quoted(LabelText(toDisplayStatus(r.result)))>>)

\* the header line, ending with "\n": App.tsx 98, part_006 378
csvHeader(view) ==
    IF view = "turnstile"
    THEN joinSemi(<<<<"name">>, <<"employeeNo">>, <<"time">>, <<"deviceId">>,
                    <<"status">>>>) \o <<"\n">>
    ELSE joinSemi(<<<<"name">>, <<"time">>, <<"device">>, <<"pressure">>, <<"pulse">>,
                    <<"temperature">>, <<"status">>>>) \o <<"\n">>

\* BOM + header + csvRows: App.tsx 102, part_006 383
csvText(view, rows) ==
    <<"BOM">> \o csvHeader(view)
              \o joinLines([i \in 1..Len(rows) |-> csvRow(view, rows[i])])

\* rows of the page the DataGrid shows
gridSlice(j) == SubSeq(j.rows, j.gridPage * j.gridPageSize + 1,
                       IF (j.gridPage + 1) * j.gridPageSize < Len(j.rows)
                       THEN (j.gridPage + 1) * j.gridPageSize ELSE Len(j.rows))

\* load() / loadExams(): setLoading(true) and the request goes out
\* (on mount, on Apply, and for the ESMO journal on every tick of the 10 s timer)
JournalLoad ==
    /\ journal.pending < MaxPending
    /\ journal' = [journal EXCEPT !.loading = TRUE, !.pending = @ + 1]
    /\ download' = NoFile

\* the request resolves: setRows(data), then setLoading(false); the grid keeps
\* its page when that page still exists
JournalLoaded(data) ==
    /\ journal.pending > 0
    /\ journal' = [journal EXCEPT !.rows = data, !.loading = FALSE,
                                  !.pending = @ - 1,
                                  !.gridPage = clampPage(@, Len(data), journal.gridPageSize)]
    /\ download' = NoFile

\* the request rejects: the rows stay, setLoading(false)
JournalFailed ==
    /\ journal.pending > 0
    /\ journal' = [journal EXCEPT !.loading = FALSE, !.pending = @ - 1]
    /\ download' = NoFile

\* DataGrid pagination: another page
GridChangePage(newPage) ==
    /\ newPage \in PageButtons(journal.gridPage, Len(journal.rows), journal.gridPageSize)
    /\ journal' = [journal EXCEPT !.gridPage = newPage]
    /\ download' = NoFile

\* DataGrid pagination: another page size
GridChangePageSize(size) ==
    /\ size # journal.gridPageSize
    /\ journal' = [journal EXCEPT !.gridPageSize = size,
                                  !.gridPage = clampPage(@, Len(journal.rows), size)]
    /\ download' = NoFile

\* the export buttons: disabled={rows.length === 0 || loading}
ExportDisabled == Len(journal.rows) = 0 \/ journal.loading

\* mutant: only the page on screen is written
exportCSV_pageOnly ==
    /\ ~ExportDisabled
    /\ Len(journal.rows) # 0
    /\ download' = [view |-> journal.view, kind |-> "csv",
                    text |-> csvText(journal.view, gridSlice(journal))]
    /\ UNCHANGED journal

\* exportCSV: App.tsx 96-108, part_006 376-389
exportCSV ==
    /\ ~ExportDisabled
    /\ Len(journal.rows) # 0
    /\ download' = [view |-> journal.view, kind |-> "csv",
                    text |-> csvText(journal.view, journal.rows)]
    /\ UNCHANGED journal

FreshJournal(v) == [view |-> v, rows |-> <<>>, loading |-> FALSE, pending |-> 0,
                    gridPage |-> 0, gridPageSize |-> 25]

JournalIdle == /\ journal = FreshJournal("turnstile")
               /\ download = NoFile

(***************************************************************************)
(* Forms and dialogs that submit a request                                 *)
(*   AdminUsersPage  src/frontend/src/pages/AdminUsersPage.tsx             *)
(*   DevicesPage     src/frontend/src/pages/DevicesPage.tsx                *)
(*   EmployeesPage   src/frontend/src/pages/EmployeesPage.tsx              *)
(*   LoginPage       src/frontend/src/pages/LoginPage.tsx                  *)
(***************************************************************************)
SubmitActions == {"createUser", "resetPassword", "deleteUser", "devicePower",
                  "turnstileSync", "login", "createEmployee"}

\* the actions whose handler keeps a flag while the request is in flight:
\* creating, resetting, deleting, powerSaving, syncing, loading.  The form of
\* EmployeesPage.handleSubmit (lines 20-23) keeps none
FlaggedActions == SubmitActions \ {"createEmployee"}

\* the submit button can be pressed: disabled={creating || ...}, {resetting},
\* {deleting}, {powerSaving || ...}, {syncing}, {loading}; the form is taken
\* to be filled in
SubmitEnabled(a) == ~submits[a].busy

\* the handler up to its await: set...(true), then the request goes out
Submit(a) ==
    /\ SubmitEnabled(a)
    /\ submits[a].outstanding < MaxPending
    /\ submits' = [submits EXCEPT ![a].busy = (a \in FlaggedActions),
                                  ![a].outstanding = @ + 1]

\* the request settles, with either outcome: finally set...(false)
SubmitSettled(a) ==
    /\ submits[a].outstanding > 0
    /\ submits' = [submits EXCEPT ![a].busy = FALSE, ![a].outstanding = @ - 1]

FormIdle == submits = [a \in SubmitActions |-> [busy |-> FALSE, outstanding |-> 0]]

(***************************************************************************)
(* Polling timers                                                          *)
(*   DashboardPage    src/unnamed/part_004 110-131 (every 30 s)            *)
(*   EsmoJournalPage  src/unnamed/part_006 272-280 (every 10 s)            *)
(*   MedicalExamList  src/unnamed/part_008 108-113 (every 30 s)            *)
(*   DevicesPage      src/frontend/src/pages/DevicesPage.tsx 92-96         *)
(***************************************************************************)
PollingViews == {"DashboardPage", "EsmoJournalPage", "DevicesPage", "MedicalExamList"}

\* views whose polling effect has dependencies ([loadExams], [rowsPerPage, day])
\* and so runs again while the view is mounted; the other two have []
RerunViews == {"EsmoJournalPage", "MedicalExamList"}

NoTimer == [view |-> "none", timer |-> 0]

\* mutant: the cleanup leaves the interval running
clearInterval_leak(live, id) == live

\* clearInterval(interval)
clearInterval(live, id) == live \ {id}

\* the view is mounted: the effect runs, setInterval gives a new timer.  The
\* id of the timer an effect run creates is the number of that run
Mount(v) ==
    /\ ~pollers[v].mounted
    /\ pollers[v].runs < MaxEffectRuns
    /\ pollers' = [pollers EXCEPT ![v].mounted = TRUE,
                                  ![v].runs = @ + 1,
                                  ![v].live = @ \cup {pollers[v].runs + 1}]
    /\ UNCHANGED polled

\* a dependency of the effect changes: the cleanup of the last run, then the
\* effect again
EffectRerun(v) ==
    /\ pollers[v].mounted
    /\ v \in RerunViews
    /\ pollers[v].runs < MaxEffectRuns
    /\ pollers' = [pollers EXCEPT
                      ![v].runs = @ + 1,
                      ![v].live = clearInterval(@, pollers[v].runs)
                                     \cup {pollers[v].runs + 1}]
    /\ UNCHANGED polled

\* the view is torn down: the cleanup of the last run
Unmount(v) ==
    /\ pollers[v].mounted
    /\ pollers' = [pollers EXCEPT ![v].mounted = FALSE,
                                  ![v].live = clearInterval(@, pollers[v].runs)]
    /\ UNCHANGED polled

\* a running timer fires and starts a fetch: load() / loadExams()
TimerTick(v, id) ==
    /\ id \in pollers[v].live
    /\ polled' = [view |-> v, timer |-> id]
    /\ UNCHANGED pollers

TimerIdle == /\ pollers = [v \in PollingViews |->
                              [mounted |-> FALSE, runs |-> 0, live |-> {}]]
             /\ polled = NoTimer

(***************************************************************************)
(* Civil days: "today" of the dashboard queries, the day of an exam        *)
(*   part_004          src/unnamed/part_004 82-93, 110-131                 *)
(*   part_005          src/unnamed/part_005 126-146                        *)
(*   DashboardPage.tsx src/frontend/src/pages/DashboardPage.tsx 55-81      *)
(*   MedicalExamList   src/unnamed/part_008 42-107                         *)
(* An instant is a number of hours after 2024-01-10T00:00Z; a time zone is *)
(* its offset from UTC in hours.                                           *)
(***************************************************************************)
Instants == 0..MaxInstant
TashkentOffset == 5             \* timeZone: "Asia/Tashkent" (UTC+5, no DST)
BrowserOffsets == {-5, 0, 5}    \* zones a browser can be configured with

\* the calendar fields of an instant in a zone (Date getters, formatToParts)
CivilDate(instant, offset) ==
    [year |-> 2024, month |-> 1, day |-> 9 + ((instant + offset + 24) \div 24)]

\* String(n).padStart(2, '0') and Intl "2-digit"
padStart2(n) == IF n < 10 THEN "0" \o ToString(n) ELSE ToString(n)

\* `${year}-${month}-${day}`
formatYmd(parts) ==
    ToString(parts.year) \o "-" \o padStart2(parts.month) \o "-" \o padStart2(parts.day)

\* getTodayTashkent: part_004 82-93, part_005, part_008 42-53
getTodayTashkent == formatYmd(CivilDate(clock.now, TashkentOffset))

\* `today` of DashboardPage.tsx 56-61: getFullYear / getMonth / getDate
getTodayLocal == formatYmd(CivilDate(clock.now, clock.tz))

\* the day a revision of the dashboard sends with its queries
today(rev) == IF rev = "DashboardPage.tsx" THEN getTodayLocal ELSE getTodayTashkent

NoQuery == [rev |-> "none", day |-> Null]

\* time passes
ClockTick ==
    /\ clock.now < MaxInstant
    /\ clock' = [clock EXCEPT !.now = @ + 1]
    /\ UNCHANGED <<dayQuery, examDay>>

\* load() of the dashboard effect: fetchDailyMineSummary(today) and the other
\* queries of the same run carry the same `today`
DashQuery(rev) ==
    /\ dayQuery' = [rev |-> rev, day |-> today(rev)]
    /\ UNCHANGED <<clock, examDay>>

\* ---- the daily exam list (MedicalExamList, part_008)
\* exam.timestamp: the instant it denotes and the text that carries it.
\*   "iso": YYYY-MM-DDThh:mm:ss written in the zone `offset`
\*   "rfc": a date text that does not start with YYYY-MM-DD
\*   "bad": a text Date cannot parse
Timestamp(instant, offset, form) == [instant |-> instant, offset |-> offset, form |-> form]

ExamPool ==
    { [id |-> 1, timestamp |-> Timestamp(10, TashkentOffset, "iso"), result |-> S_passed],
      [id |-> 2, timestamp |-> Timestamp(20, TashkentOffset, "iso"), result |-> S_korik],
      [id |-> 3, timestamp |-> Timestamp(20, 0, "iso"),              result |-> toUpperCase(S_failed)],
      [id |-> 4, timestamp |-> Timestamp(20, 0, "rfc"),              result |-> S_dash],
      [id |-> 5, timestamp |-> Timestamp(10, 0, "bad"),              result |-> S_dash] }

RECURSIVE ExamsOfLen(_)
ExamsOfLen(n) ==
    IF n = 0 THEN {<<>>}
    ELSE {Append(s, e) : s \in ExamsOfLen(n - 1), e \in ExamPool}

\* answers of GET /medical/exams
ExamResponses == UNION {ExamsOfLen(n) : n \in 0..MaxExams}

\* the `day` prop: absent, or a day picked on the dashboard
DayProps == {Null} \cup {formatYmd(CivilDate(i, TashkentOffset)) : i \in Instants}

\* getExamDay: part_008 55-71
getExamDay(rawTimestamp) ==
    IF rawTimestamp.form = "iso"
    THEN formatYmd(CivilDate(rawTimestamp.instant, rawTimestamp.offset))
    ELSE IF rawTimestamp.form = "bad" THEN Null
    ELSE formatYmd(CivilDate(rawTimestamp.instant, TashkentOffset))

CountIn(s, set) == Cardinality({i \in 1..Len(s) : toLowerCase(s[i].result) \in set})

\* the stats handed to onStatsChange: part_008 85-97
examStats(dailyData) ==
    [passed |-> CountIn(dailyData, {S_passed}),
     review |-> CountIn(dailyData, ReviewVariants),
     failed |-> CountIn(dailyData, FailedVariants),
     total  |-> Len(dailyData)]

NoStats == [passed |-> 0, review |-> 0, failed |-> 0, total |-> 0]

\* loadExams, the fetch answered with `data`: part_008 73-107
ExamsLoaded(day, data) ==
    \E targetDay \in {IF day # Null THEN day ELSE getTodayTashkent} :
      \E dailyData \in {SelectSeq(data, LAMBDA exam : getExamDay(exam.timestamp) = targetDay)} :
        /\ examDay' = [targetDay |-> targetDay, exams |-> dailyData,
                       stats |-> examStats(dailyData), loading |-> FALSE]
        /\ UNCHANGED <<clock, dayQuery>>

\* loadExams, the fetch rejected: catch logs, finally clears `loading`
ExamsFailed ==
    /\ examDay.loading
    /\ examDay' = [examDay EXCEPT !.loading = FALSE]
    /\ UNCHANGED <<clock, dayQuery>>

FreshExamDay == [targetDay |-> Null, exams |-> <<>>, stats |-> NoStats, loading |-> TRUE]

DayIdle == /\ clock = [now |-> 0, tz |-> TashkentOffset]
           /\ dayQuery = NoQuery
           /\ examDay = FreshExamDay

(***************************************************************************)
(* Duration cell: dur                                                      *)
(*   src/unnamed/part_004 70-74, src/unnamed/part_005 70-74,               *)
(*   src/frontend/src/pages/DashboardPage.tsx 33-37                        *)
(***************************************************************************)
\* mutant: the minutes are padded to two digits
dur_padded(min) ==
    LET h == min \div 60
        m == min % 60
    IN ToString(h) \o "h " \o padStart2(m) \o "m"

\* dur(min): Math.floor(min / 60), min % 60, `${h}h ${m}m`
dur(min) ==
    LET h == min \div 60
        m == min % 60
    IN ToString(h) \o "h " \o ToString(m) \o "m"

\* the daily summary answers with another total_minutes for the row
SetTotalMinutes(min) ==
    /\ min # totalMinutes
    /\ totalMinutes' = min
    /\ durationCell' = Null

\* <TableCell>{dur(r.total_minutes)}</TableCell>
RenderDuration ==
    /\ durationCell = Null
    /\ durationCell' = dur(totalMinutes)
    /\ UNCHANGED totalMinutes

DurIdle == /\ totalMinutes = 0
           /\ durationCell = Null

(***************************************************************************)
(* Export buttons                                                          *)
(*   TurnstileJournalPage  src/frontend/src/App.tsx 96-190                 *)
(*   EsmoJournalPage       src/unnamed/part_006 376-505                    *)
(*   ToolsPage             src/frontend/src/pages/ToolsPage.tsx 56-220     *)
(*   ReportsPage           src/frontend/src/pages/ReportsPage.tsx 295-484  *)
(* The row set of a page is represented by its size.                       *)
(***************************************************************************)
ExportViews == {"TurnstileJournalPage", "EsmoJournalPage", "ToolsPage", "ReportsPage"}
ExportKinds == {"csv", "pdf"}
MetricCount == 9                \* entries of summaryData (ReportsPage.tsx 334-344)

NoExport == [view |-> "none", kind |-> "none", rows |-> 0]

\* sizes the row set of a page can take after a fetch or a search:
\* ToolsPage.loadRows is a placeholder that always does setRows([]);
\* ReportsPage shows the metrics of summaryData that match the search
RowCounts(view) ==
    IF view = "ToolsPage" THEN {0}
    ELSE IF view = "ReportsPage" THEN 0..MetricCount
    ELSE 0..MaxExportRows

\* mutant: the buttons are disabled only while loading
exportDisabled_loadingOnly(x) == x.loading

\* the `disabled` prop of the two export buttons
exportDisabled(x) ==
    IF x.view = "ReportsPage"
    THEN ~x.hasData \/ x.loading \/ x.rows = 0
    ELSE x.rows = 0 \/ x.loading

\* the early return of exportCSV / exportPDF; ToolsPage has none
exportReturnsEarly(x) ==
    IF x.view = "ReportsPage" THEN ~x.hasData \/ x.rows = 0
    ELSE IF x.view = "ToolsPage" THEN FALSE
    ELSE x.rows = 0

\* a click on an export button: exportCSV, exportPDF
ExportClick(kind) ==
    /\ ~exportDisabled(exporter)
    /\ exported' = IF exportReturnsEarly(exporter) THEN exported
                   ELSE [view |-> exporter.view, kind |-> kind, rows |-> exporter.rows]
    /\ UNCHANGED exporter

\* load / loadRows up to the await: setLoading(true)
ViewLoad ==
    /\ ~exporter.loading
    /\ exporter' = [exporter EXCEPT !.loading = TRUE]
    /\ UNCHANGED exported

\* the fetch is answered: setRows / setData, then setLoading(false)
ViewLoaded(n) ==
    /\ exporter.loading
    /\ exporter' = IF exporter.view = "ReportsPage"
                   THEN [exporter EXCEPT !.hasData = TRUE, !.loading = FALSE]
                   ELSE [exporter EXCEPT !.rows = n, !.loading = FALSE]
    /\ UNCHANGED exported

\* the fetch is rejected: the rows stay, setLoading(false)
ViewFailed ==
    /\ exporter.loading
    /\ exporter' = [exporter EXCEPT !.loading = FALSE]
    /\ UNCHANGED exported

\* ReportsPage.handleApply with another search text: n metrics match it
ReportSearch(n) ==
    /\ exporter.view = "ReportsPage"
    /\ n # exporter.rows
    /\ exporter' = [exporter EXCEPT !.rows = n]
    /\ UNCHANGED exported

\* the page as it is mounted: rows = [], data = null; with the empty search
\* every metric of ReportsPage matches
FreshExporter(v) ==
    [view |-> v, hasData |-> (v # "ReportsPage"),
     rows |-> IF v = "ReportsPage" THEN MetricCount ELSE 0, loading |-> FALSE]

ExportIdle == /\ exporter = FreshExporter("TurnstileJournalPage")
              /\ exported = NoExport

(***************************************************************************)
(* AdminUsersPage: the checks made before a user is created or a password  *)
(* is reset                                                                *)
(*   src/frontend/src/pages/AdminUsersPage.tsx 40-130, 255-335             *)
(***************************************************************************)
NameChars == {"a", " "}
Usernames == SeqsUpTo(NameChars, MaxNameLen)
PasswordLengths == 0..MaxPassLen

NoRequest == [kind |-> "none", username |-> <<>>, password |-> 0]
EmptyAdminForm == [username |-> <<>>, password |-> 0, newPass |-> 0]

\* canCreate (lines 71-74); the role comes from the Select over `roles`
canCreate ==
    /\ Len(trim(adminForm.username)) >= 3
    /\ adminForm.password >= 6

\* the fields of the create dialog are edited
SetNewUser(username, password) ==
    /\ adminRequest = NoRequest
    /\ <<username, password>> # <<adminForm.username, adminForm.password>>
    /\ adminForm' = [adminForm EXCEPT !.username = username, !.password = password]
    /\ UNCHANGED adminRequest

\* the field of the reset dialog is edited (the dialog is open on a user)
SetNewPass(password) ==
    /\ adminRequest = NoRequest
    /\ password # adminForm.newPass
    /\ adminForm' = [adminForm EXCEPT !.newPass = password]
    /\ UNCHANGED adminRequest

\* handleCreate (76-97) behind its button, disabled={creating || !canCreate}
handleCreate ==
    /\ adminRequest = NoRequest
    /\ canCreate
    /\ adminRequest' = [kind |-> "createUser", username |-> trim(adminForm.username),
                        password |-> adminForm.password]
    /\ UNCHANGED adminForm

\* handleReset (99-114) behind its button, disabled={resetting}; selectedUser
\* is set whenever the dialog is open
handleReset ==
    /\ adminRequest = NoRequest
    /\ adminRequest' = [kind |-> "resetPassword", username |-> <<>>,
                        password |-> adminForm.newPass]
    /\ UNCHANGED adminForm

\* the request is answered: on success the dialog is closed and its fields
\* are emptied, on failure an alert is shown and the fields stay
AdminSettled(ok) ==
    /\ adminRequest # NoRequest
    /\ adminRequest' = NoRequest
    /\ adminForm' = IF ~ok THEN adminForm
                    ELSE IF adminRequest.kind = "createUser"
                    THEN [adminForm EXCEPT !.username = <<>>, !.password = 0]
                    ELSE [adminForm EXCEPT !.newPass = 0]

AdminIdle == /\ adminForm = EmptyAdminForm
             /\ adminRequest = NoRequest

(***************************************************************************)
(* Failures of fetches and submits, and what the page shows for them       *)
(*   DashboardPage.load        src/unnamed/part_004 110-131                *)
(*   DevicesPage.load          src/frontend/src/pages/DevicesPage.tsx 76-91*)
(*   EsmoJournalPage.loadExams src/unnamed/part_006 255-270                *)
(*   LoginPage.handleSubmit    src/frontend/src/pages/LoginPage.tsx 26-38  *)
(*   AdminUsersPage.handleReset src/frontend/src/pages/AdminUsersPage.tsx 99-114 *)
(***************************************************************************)
CallSites == {"DashboardPage.load", "DevicesPage.load", "EsmoJournalPage.loadExams",
              "LoginPage.handleSubmit", "AdminUsersPage.handleReset"}

\* messages of the errors request() rejects with (body text, `HTTP ${status}`,
\* the transport error of fetch)
ErrorMessages == {"detail", HttpStatusText(500), "network"}

NoNotice == [kind |-> "none", text |-> ""]

\* the catch clause of the call site, given the Error it caught
catchClause(site, message) ==
    CASE site = "LoginPage.handleSubmit"
            -> [kind |-> "banner", text |-> message]          \* setError(err.message)
      [] site = "AdminUsersPage.handleReset"
            -> [kind |-> "alert",                              \* alert(...)
                text |-> "Error resetting password: " \o message]
      [] site = "DashboardPage.load"        -> NoNotice        \* .catch(() => { })
      [] site = "DevicesPage.load"          -> NoNotice        \* catch { }
      [] site = "EsmoJournalPage.loadExams" -> NoNotice        \* console.error only

\* the call of a site is rejected
CallFailed(site, message) ==
    /\ failed' = [failed EXCEPT ![site] = message]
    /\ surfaced' = [surfaced EXCEPT ![site] = catchClause(site, message)]

\* the call of a site succeeds; LoginPage clears its banner before each submit
CallSucceeded(site) ==
    /\ failed' = [failed EXCEPT ![site] = Null]
    /\ surfaced' = [surfaced EXCEPT ![site] = NoNotice]

NoticeIdle == /\ failed = [s \in CallSites |-> Null]
              /\ surfaced = [s \in CallSites |-> NoNotice]

(***************************************************************************)
(* Time cells: fmt                                                         *)
(*   src/unnamed/part_004 65-68, src/unnamed/part_005 65-68,               *)
(*   src/frontend/src/pages/DashboardPage.tsx 28-31                        *)
(* A rendered text is either a string of the model or, for characters      *)
(* outside ASCII, the list of its code points.                             *)
(***************************************************************************)
Text(s)   == [kind |-> "text", codes |-> <<>>, text |-> s]
Chars(cs) == [kind |-> "chars", codes |-> cs, text |-> ""]

\* the string literal of line 66 / 29, character by character:
\* U+00E2 U+20AC U+201D
Placeholder == Chars(<<226, 8364, 8221>>)
\* the em dash, U+2014
EmDash == Chars(<<8212>>)
NotRendered == Text("")

\* values of last_in / last_out / event_ts: null, the empty string, a text
\* Date cannot parse, and ISO texts of the instants of the model
CellTimestamps ==
    {[form |-> f, instant |-> 0, offset |-> 0] : f \in {"null", "empty", "bad"}}
        \cup {Timestamp(i, o, "iso") : i \in Instants, o \in {0, TashkentOffset}}

\* Date.prototype.toLocaleTimeString("en-GB", {hour: "2-digit", minute:
\* "2-digit"}) in the zone of the browser; an invalid Date gives the text
\* "Invalid Date" and does not throw
toLocaleTimeString(ts) ==
    IF ts.form = "bad" THEN Text("Invalid Date")
    ELSE Text(padStart2((ts.instant + clock.tz + 24) % 24) \o ":" \o padStart2(0))

\* fmt(iso)
fmt(iso) ==
    IF iso.form \in {"null", "empty"} THEN Placeholder
    ELSE toLocaleTimeString(iso)

\* a row with another timestamp arrives
SetCellTs(ts) ==
    /\ ts # cellTs
    /\ cellTs' = ts
    /\ cellText' = NotRendered

\* <TableCell>{fmt(r.last_in)}</TableCell>
RenderTimeCell ==
    /\ cellText = NotRendered
    /\ cellText' = fmt(cellTs)
    /\ UNCHANGED cellTs

CellIdle == /\ cellTs = [form |-> "null", instant |-> 0, offset |-> 0]
            /\ cellText = NotRendered

(***************************************************************************)
(* Sync calls to the external medical records                              *)
(*   syncMedicalExams   src/frontend/src/api/medical.ts 59-61              *)
(*   syncEsmoEmployees  src/frontend/src/api/medical.ts 76-78              *)
(*   request            src/unnamed/part_002 8-27                          *)
(***************************************************************************)
SyncCalls == {"syncMedicalExams", "syncEsmoEmployees"}

\* apiClient.post(path, {}): request() awaits fetch(url, {...init, headers});
\* no signal, no timer and no race accompany the fetch
SyncSend(c) ==
    /\ syncs[c].pc # "pending"
    /\ syncs' = [syncs EXCEPT ![c] = [pc |-> "pending", waited |-> 0]]

\* a minute passes while the upstream has not answered
SyncWait(c) ==
    /\ syncs[c].pc = "pending"
    /\ syncs[c].waited < MaxWait
    /\ syncs' = [syncs EXCEPT ![c].waited = @ + 1]

\* the response arrives (request() lines 16-26), or fetch() rejects
SyncSettled(c, ok) ==
    /\ syncs[c].pc = "pending"
    /\ syncs' = [syncs EXCEPT ![c].pc = IF ok THEN "resolved" ELSE "rejected"]

SyncIdle == syncs = [c \in SyncCalls |-> [pc |-> "idle", waited |-> 0]]

(***************************************************************************)
(* Overlapping fetches of a polling view                                   *)
(*   EsmoJournalPage.loadExams / handleApply  src/unnamed/part_006 255-288 *)
(*   DashboardPage.load                       src/unnamed/part_004 110-131 *)
(***************************************************************************)
RaceViews == {"EsmoJournalPage", "DashboardPage"}

FreshRace(v) == [view |-> v, issued |-> 0, outstanding |-> {}, arrived |-> <<>>, shown |-> 0]

\* a poll tick, the mount or Apply issues a fetch; the fetches that are
\* outstanding are left alone (no AbortController, no request counter)
FetchIssue ==
    /\ race.issued < MaxFetches
    /\ race' = [race EXCEPT !.issued = @ + 1,
                            !.outstanding = @ \cup {race.issued + 1}]

\* mutant: a response older than the one on display is dropped
FetchAnswered_sequenced(id) ==
    /\ id \in race.outstanding
    /\ race' = [race EXCEPT !.outstanding = @ \ {id},
                            !.arrived = Append(@, id),
                            !.shown = IF id > @ THEN id ELSE @]

\* the response of fetch `id` arrives: setRows(data) / setSummary(sorted)
FetchAnswered(id) ==
    /\ id \in race.outstanding
    /\ race' = [race EXCEPT !.outstanding = @ \ {id},
                            !.arrived = Append(@, id),
                            !.shown = id]

\* fetch `id` is rejected: the catch clause leaves the rows alone
FetchRejected(id) ==
    /\ id \in race.outstanding
    /\ race' = [race EXCEPT !.outstanding = @ \ {id}]

RaceIdle == race = FreshRace("EsmoJournalPage")

(***************************************************************************)
(* Device power dialog                                                     *)
(*   src/frontend/src/pages/DevicesPage.tsx 56-60, 102-133, 318-364        *)
(***************************************************************************)
DeviceIds == {1, 2}

\* texts of the password field
PowerPasswords == {"", "pw", "bad"}

NoToggle == [pc |-> "idle", device |-> 0, target |-> FALSE, password |-> "",
             closureSaving |-> FALSE]

\* DevicesPage.tsx 56-60: useState initial values
FreshPower == [dialogDevice |-> 0, dialogTargetActive |-> FALSE, powerPassword |-> "",
               showPowerPassword |-> FALSE, powerSaving |-> FALSE,
               request |-> NoToggle, result |-> "none", alert |-> "none"]

\* openPowerDialog: DevicesPage.tsx 102-106; the switches of the grids are
\* behind the modal dialog while it is open
openPowerDialog(device, nextActive) ==
    /\ power.dialogDevice = 0
    /\ power' = [power EXCEPT !.dialogDevice = device,
                              !.dialogTargetActive = nextActive,
                              !.powerPassword = ""]

\* closePowerDialog that closes whatever the saving flag says
closePowerDialog_unguarded(p, powerSaving) ==
    [p EXCEPT !.dialogDevice = 0, !.powerPassword = "", !.showPowerPassword = FALSE]

\* closePowerDialog: DevicesPage.tsx 108-113; powerSaving is the value of the
\* render whose closure is called
closePowerDialog(p, powerSaving) ==
    IF powerSaving THEN p
    ELSE [p EXCEPT !.dialogDevice = 0, !.powerPassword = "", !.showPowerPassword = FALSE]

\* Dialog onClose (backdrop, Escape): DevicesPage.tsx 318
DialogClose ==
    /\ power.dialogDevice # 0
    /\ power' = closePowerDialog(power, power.powerSaving)

\* the Cancel button, disabled while saving: DevicesPage.tsx 350-352
CancelClick ==
    /\ power.dialogDevice # 0
    /\ ~power.powerSaving
    /\ power' = closePowerDialog(power, power.powerSaving)

\* the password field and its eye button: DevicesPage.tsx 326-347
SetPowerPassword(text) ==
    /\ power.dialogDevice # 0
    /\ text # power.powerPassword
    /\ power' = [power EXCEPT !.powerPassword = text]

ToggleShowPassword ==
    /\ power.dialogDevice # 0
    /\ power' = [power EXCEPT !.showPowerPassword = ~@]

\* savePowerState up to its first await: DevicesPage.tsx 115-119; called by
\* the Confirm button (353-358) or by Enter in the field (332-334)
savePowerState(byKey) ==
    /\ power.dialogDevice # 0
    /\ ~power.powerSaving
    /\ byKey \/ power.powerPassword # ""
    /\ power' = [power EXCEPT !.powerSaving = TRUE,
                              !.result = "none",
                              !.alert = "none",
                              !.request = [pc |-> "toggle",
                                           device |-> power.dialogDevice,
                                           target |-> power.dialogTargetActive,
                                           password |-> power.powerPassword,
                                           closureSaving |-> power.powerSaving]]

\* toggleDevicePower resolved: savePowerState goes on to `await load()`
PowerToggled ==
    /\ power.request.pc = "toggle"
    /\ power' = [power EXCEPT !.request.pc = "load"]

\* load() settled (it swallows its own failure, 76-91): closePowerDialog() of
\* the closure, then finally: DevicesPage.tsx 120-121, 130-132
PowerReloaded ==
    /\ power.request.pc = "load"
    /\ power' = [closePowerDialog(power, power.request.closureSaving)
                    EXCEPT !.powerSaving = FALSE, !.result = "ok", !.request = NoToggle]

\* toggleDevicePower rejected: catch and finally, DevicesPage.tsx 122-132
PowerRejected(message) ==
    /\ power.request.pc = "toggle"
    /\ power' = [power EXCEPT !.powerSaving = FALSE,
                              !.result = "failed",
                              !.request = NoToggle,
                              !.alert = IF message = "Invalid control password"
                                        THEN "devices.invalidPassword"
                                        ELSE IF message # "" THEN message
                                        ELSE "devices.powerUpdateError"]

PowerIdle == power = FreshPower

(***************************************************************************)
(* Data kept on screen when a poll fails                                   *)
(*   DevicesPage.load          src/frontend/src/pages/DevicesPage.tsx 76-91 *)
(*   DashboardPage load        src/unnamed/part_004 110-131,                *)
(*                             src/unnamed/part_005 125-147                 *)
(*   MedicalExamList.loadExams src/unnamed/part_008 73-102                  *)
(***************************************************************************)
\* the polled state: devices, summary, debts, exams, blockedCount
DataSets == {"devices", "dailySummary", "dailyDebts", "exams", "blockedCount"}

\* answers of an endpoint; 0 is the empty list, or the count 0
Snapshots == 0..MaxSnapshot

\* useState([]) / useState(0)
FreshDisplay == [value |-> [d \in DataSets |-> 0], lastOk |-> [d \in DataSets |-> 0]]

\* the then-branch: setDevices / setSummary / setDebts / setExams / setBlockedCount
DataLoaded(d, data) ==
    display' = [display EXCEPT !.value[d] = data, !.lastOk[d] = data]

\* the catch clause of the fetch of d: empty for devices (DevicesPage.tsx 88-90),
\* summary and debts (part_005 139-140), logging for exams (part_008 98-99),
\* setBlockedCount(0) for the blocked attempts (part_005 141)
onRejected(d, previous) == IF d = "blockedCount" THEN 0 ELSE previous

DataFailed(d) ==
    display' = [display EXCEPT !.value[d] = onRejected(d, @)]

DisplayIdle == display = FreshDisplay

(***************************************************************************)
(* Specifications                                                          *)
(***************************************************************************)
\* ---- the session: apiClient calls, login, logout
Init ==
    /\ storage \in {[token |-> Null, user |-> Null]}
                   \cup {[token |-> t, user |-> u] : t \in Tokens, u \in Users}
    /\ href = IF storage.token = Null THEN "/login" ELSE "/dashboard"
    /\ calls = [i \in 1..MaxCalls |->
                  [pc |-> "idle", method |-> "GET", auth |-> Null,
                   status |-> 0, outcome |-> "none", message |-> "none",
                   attempts |-> 0]]
    /\ DashIdle /\ StatusIdle /\ SearchIdle /\ JournalIdle /\ FormIdle /\ TimerIdle /\ DayIdle /\ DurIdle /\ ExportIdle /\ AdminIdle /\ NoticeIdle /\ CellIdle /\ SyncIdle /\ RaceIdle /\ PowerIdle /\ DisplayIdle

Next ==
    \/ /\ \E id \in 1..MaxCalls, m \in Methods : RequestSend(id, m)
       /\ UNCHANGED <<dashVars, statusVars, searchVars, journalVars, formVars, timerVars, dayVars, durVars, exportVars, adminVars, noticeVars, cellVars, syncVars, raceVars, powerVars, displayVars>>
    \/ /\ \E id \in 1..MaxCalls, st \in Statuses, b \in Bodies : RequestSettle(id, st, b)
       /\ UNCHANGED <<dashVars, statusVars, searchVars, journalVars, formVars, timerVars, dayVars, durVars, exportVars, adminVars, noticeVars, cellVars, syncVars, raceVars, powerVars, displayVars>>
    \/ /\ \E id \in 1..MaxCalls : RequestTransportError(id)
       /\ UNCHANGED <<dashVars, statusVars, searchVars, journalVars, formVars, timerVars, dayVars, durVars, exportVars, adminVars, noticeVars, cellVars, syncVars, raceVars, powerVars, displayVars>>
    \/ /\ \E u \in Users, t \in Tokens : LoginOk(u, t)
       /\ UNCHANGED <<dashVars, statusVars, searchVars, journalVars, formVars, timerVars, dayVars, durVars, exportVars, adminVars, noticeVars, cellVars, syncVars, raceVars, powerVars, displayVars>>
    \/ /\ Logout
       /\ UNCHANGED <<dashVars, statusVars, searchVars, journalVars, formVars, timerVars, dayVars, durVars, exportVars, adminVars, noticeVars, cellVars, syncVars, raceVars, powerVars, displayVars>>
    \/ /\ OpenLogin
       /\ UNCHANGED <<dashVars, statusVars, searchVars, journalVars, formVars, timerVars, dayVars, durVars, exportVars, adminVars, noticeVars, cellVars, syncVars, raceVars, powerVars, displayVars>>

Spec == Init /\ [][Next]_vars

\* ---- the dashboard's daily summary
InitDashboardSpec ==
    /\ InitDashboard
    /\ SessionIdle /\ StatusIdle /\ SearchIdle /\ JournalIdle /\ FormIdle /\ TimerIdle /\ DayIdle /\ DurIdle /\ ExportIdle /\ AdminIdle /\ NoticeIdle /\ CellIdle /\ SyncIdle /\ RaceIdle /\ PowerIdle /\ DisplayIdle

NextDashboard ==
    \/ /\ DashLoad
       /\ UNCHANGED <<sessionVars, statusVars, searchVars, journalVars, formVars, timerVars, dayVars, durVars, exportVars, adminVars, noticeVars, cellVars, syncVars, raceVars, powerVars, displayVars>>
    \/ /\ SummaryLoaded
       /\ UNCHANGED <<sessionVars, statusVars, searchVars, journalVars, formVars, timerVars, dayVars, durVars, exportVars, adminVars, noticeVars, cellVars, syncVars, raceVars, powerVars, displayVars>>
    \/ /\ SummaryFailed
       /\ UNCHANGED <<sessionVars, statusVars, searchVars, journalVars, formVars, timerVars, dayVars, durVars, exportVars, adminVars, noticeVars, cellVars, syncVars, raceVars, powerVars, displayVars>>

SpecDashboard == InitDashboardSpec /\ [][NextDashboard]_vars

\* ---- the status cell of an exam row
InitStatus ==
    /\ StatusIdle
    /\ SessionIdle /\ DashIdle /\ SearchIdle /\ JournalIdle /\ FormIdle /\ TimerIdle /\ DayIdle /\ DurIdle /\ ExportIdle /\ AdminIdle /\ NoticeIdle /\ CellIdle /\ SyncIdle /\ RaceIdle /\ PowerIdle /\ DisplayIdle

NextStatus ==
    /\ \E view \in StatusViews, raw \in RawResults : RenderStatus(view, raw)
    /\ UNCHANGED <<sessionVars, dashVars, searchVars, journalVars, formVars, timerVars, dayVars, durVars, exportVars, adminVars, noticeVars, cellVars, syncVars, raceVars, powerVars, displayVars>>

SpecStatus == InitStatus /\ [][NextStatus]_vars

\* ---- the search box over short tables
InitSearch ==
    /\ storage = [token |-> "tokA", user |-> "admin"]
    /\ href \in Routes
    /\ calls = [i \in 1..MaxCalls |->
                  [pc |-> "idle", method |-> "GET", auth |-> Null,
                   status |-> 0, outcome |-> "none", message |-> "none",
                   attempts |-> 0]]
    /\ SearchIdle
    /\ DashIdle /\ StatusIdle /\ JournalIdle /\ FormIdle /\ TimerIdle /\ DayIdle /\ DurIdle /\ ExportIdle /\ AdminIdle /\ NoticeIdle /\ CellIdle /\ SyncIdle /\ RaceIdle /\ PowerIdle /\ DisplayIdle

NextSearch ==
    \/ /\ \E q \in Queries : SetSearchQuery(q)
       /\ UNCHANGED <<dashVars, statusVars, journalVars, formVars, timerVars, dayVars, durVars, exportVars, adminVars, noticeVars, cellVars, syncVars, raceVars, powerVars, displayVars>>
    \/ /\ \E ps \in SmallDirectories : TablesLoaded(ps)
       /\ UNCHANGED <<dashVars, statusVars, journalVars, formVars, timerVars, dayVars, durVars, exportVars, adminVars, noticeVars, cellVars, syncVars, raceVars, powerVars, displayVars>>
    \/ /\ \E path \in Routes : Navigate(path)
       /\ UNCHANGED <<dashVars, statusVars, journalVars, formVars, timerVars, dayVars, durVars, exportVars, adminVars, noticeVars, cellVars, syncVars, raceVars, powerVars, displayVars>>

SpecSearch == InitSearch /\ [][NextSearch]_vars

\* ---- the paginated tables
NextPaging ==
    \/ /\ \E q \in PagingQueries : SetSearchQuery(q)
       /\ UNCHANGED <<dashVars, statusVars, journalVars, formVars, timerVars, dayVars, durVars, exportVars, adminVars, noticeVars, cellVars, syncVars, raceVars, powerVars, displayVars>>
    \/ /\ \E n \in 0..(IF href = "/dashboard" THEN MaxDashRows ELSE MaxEmpRows) :
              TablesLoaded(Directory(n))
       /\ UNCHANGED <<dashVars, statusVars, journalVars, formVars, timerVars, dayVars, durVars, exportVars, adminVars, noticeVars, cellVars, syncVars, raceVars, powerVars, displayVars>>
    \/ /\ \E path \in Routes : Navigate(path)
       /\ UNCHANGED <<dashVars, statusVars, journalVars, formVars, timerVars, dayVars, durVars, exportVars, adminVars, noticeVars, cellVars, syncVars, raceVars, powerVars, displayVars>>
    \/ /\ \E p \in {page - 1, page + 1} : SummaryChangePage(p)
       /\ UNCHANGED <<dashVars, statusVars, journalVars, formVars, timerVars, dayVars, durVars, exportVars, adminVars, noticeVars, cellVars, syncVars, raceVars, powerVars, displayVars>>
    \/ /\ \E n \in {10, 25, 50} : SummaryChangeRowsPerPage(n)
       /\ UNCHANGED <<dashVars, statusVars, journalVars, formVars, timerVars, dayVars, durVars, exportVars, adminVars, noticeVars, cellVars, syncVars, raceVars, powerVars, displayVars>>
    \/ /\ \E p \in {debtsPage - 1, debtsPage + 1} : DebtsChangePage(p)
       /\ UNCHANGED <<dashVars, statusVars, journalVars, formVars, timerVars, dayVars, durVars, exportVars, adminVars, noticeVars, cellVars, syncVars, raceVars, powerVars, displayVars>>
    \/ /\ \E n \in {5, 10, 25, 50} : DebtsChangeRowsPerPage(n)
       /\ UNCHANGED <<dashVars, statusVars, journalVars, formVars, timerVars, dayVars, durVars, exportVars, adminVars, noticeVars, cellVars, syncVars, raceVars, powerVars, displayVars>>
    \/ /\ \E p \in {examPage - 1, examPage + 1} : ExamChangePage(p)
       /\ UNCHANGED <<dashVars, statusVars, journalVars, formVars, timerVars, dayVars, durVars, exportVars, adminVars, noticeVars, cellVars, syncVars, raceVars, powerVars, displayVars>>
    \/ /\ \E n \in {5, 10, 25, 50} : ExamChangeRowsPerPage(n)
       /\ UNCHANGED <<dashVars, statusVars, journalVars, formVars, timerVars, dayVars, durVars, exportVars, adminVars, noticeVars, cellVars, syncVars, raceVars, powerVars, displayVars>>
    \/ /\ \E p \in {empPage - 1, empPage + 1} : EmployeesChangePage(p)
       /\ UNCHANGED <<dashVars, statusVars, journalVars, formVars, timerVars, dayVars, durVars, exportVars, adminVars, noticeVars, cellVars, syncVars, raceVars, powerVars, displayVars>>
    \/ /\ \E n \in {25, 50, 100} : EmployeesChangeRowsPerPage(n)
       /\ UNCHANGED <<dashVars, statusVars, journalVars, formVars, timerVars, dayVars, durVars, exportVars, adminVars, noticeVars, cellVars, syncVars, raceVars, powerVars, displayVars>>

SpecPaging == InitSearch /\ [][NextPaging]_vars

\* ---- the journals
InitJournal ==
    /\ journal \in {FreshJournal(v) : v \in JournalViews}
    /\ download = NoFile
    /\ SessionIdle /\ DashIdle /\ StatusIdle /\ SearchIdle /\ FormIdle /\ TimerIdle /\ DayIdle /\ DurIdle /\ ExportIdle /\ AdminIdle /\ NoticeIdle /\ CellIdle /\ SyncIdle /\ RaceIdle /\ PowerIdle /\ DisplayIdle

NextJournal ==
    \/ /\ JournalLoad
       /\ UNCHANGED <<sessionVars, dashVars, statusVars, searchVars, formVars, timerVars, dayVars, durVars, exportVars, adminVars, noticeVars, cellVars, syncVars, raceVars, powerVars, displayVars>>
    \/ /\ \E data \in JournalResponses : JournalLoaded(data)
       /\ UNCHANGED <<sessionVars, dashVars, statusVars, searchVars, formVars, timerVars, dayVars, durVars, exportVars, adminVars, noticeVars, cellVars, syncVars, raceVars, powerVars, displayVars>>
    \/ /\ JournalFailed
       /\ UNCHANGED <<sessionVars, dashVars, statusVars, searchVars, formVars, timerVars, dayVars, durVars, exportVars, adminVars, noticeVars, cellVars, syncVars, raceVars, powerVars, displayVars>>
    \/ /\ \E p \in 0..MaxJournalRows : GridChangePage(p)
       /\ UNCHANGED <<sessionVars, dashVars, statusVars, searchVars, formVars, timerVars, dayVars, durVars, exportVars, adminVars, noticeVars, cellVars, syncVars, raceVars, powerVars, displayVars>>
    \/ /\ \E size \in GridPageSizes : GridChangePageSize(size)
       /\ UNCHANGED <<sessionVars, dashVars, statusVars, searchVars, formVars, timerVars, dayVars, durVars, exportVars, adminVars, noticeVars, cellVars, syncVars, raceVars, powerVars, displayVars>>
    \/ /\ exportCSV
       /\ UNCHANGED <<sessionVars, dashVars, statusVars, searchVars, formVars, timerVars, dayVars, durVars, exportVars, adminVars, noticeVars, cellVars, syncVars, raceVars, powerVars, displayVars>>

SpecJournal == InitJournal /\ [][NextJournal]_vars

\* ---- the submit buttons
InitSubmit ==
    /\ FormIdle
    /\ SessionIdle /\ DashIdle /\ StatusIdle /\ SearchIdle /\ JournalIdle /\ TimerIdle /\ DayIdle /\ DurIdle /\ ExportIdle /\ AdminIdle /\ NoticeIdle /\ CellIdle /\ SyncIdle /\ RaceIdle /\ PowerIdle /\ DisplayIdle

NextSubmit ==
    \/ /\ \E a \in SubmitActions : Submit(a)
       /\ UNCHANGED <<sessionVars, dashVars, statusVars, searchVars, journalVars, timerVars, dayVars, durVars, exportVars, adminVars, noticeVars, cellVars, syncVars, raceVars, powerVars, displayVars>>
    \/ /\ \E a \in SubmitActions : SubmitSettled(a)
       /\ UNCHANGED <<sessionVars, dashVars, statusVars, searchVars, journalVars, timerVars, dayVars, durVars, exportVars, adminVars, noticeVars, cellVars, syncVars, raceVars, powerVars, displayVars>>

SpecSubmit == InitSubmit /\ [][NextSubmit]_vars

\* ---- the polling timers
InitTimers ==
    /\ TimerIdle
    /\ SessionIdle /\ DashIdle /\ StatusIdle /\ SearchIdle /\ JournalIdle /\ FormIdle /\ DayIdle /\ DurIdle /\ ExportIdle /\ AdminIdle /\ NoticeIdle /\ CellIdle /\ SyncIdle /\ RaceIdle /\ PowerIdle /\ DisplayIdle

NextTimers ==
    \/ /\ \E v \in PollingViews : Mount(v)
       /\ UNCHANGED <<sessionVars, dashVars, statusVars, searchVars, journalVars, formVars, dayVars, durVars, exportVars, adminVars, noticeVars, cellVars, syncVars, raceVars, powerVars, displayVars>>
    \/ /\ \E v \in PollingViews : EffectRerun(v)
       /\ UNCHANGED <<sessionVars, dashVars, statusVars, searchVars, journalVars, formVars, dayVars, durVars, exportVars, adminVars, noticeVars, cellVars, syncVars, raceVars, powerVars, displayVars>>
    \/ /\ \E v \in PollingViews : Unmount(v)
       /\ UNCHANGED <<sessionVars, dashVars, statusVars, searchVars, journalVars, formVars, dayVars, durVars, exportVars, adminVars, noticeVars, cellVars, syncVars, raceVars, powerVars, displayVars>>
    \/ /\ \E v \in PollingViews, id \in 1..MaxEffectRuns : TimerTick(v, id)
       /\ UNCHANGED <<sessionVars, dashVars, statusVars, searchVars, journalVars, formVars, dayVars, durVars, exportVars, adminVars, noticeVars, cellVars, syncVars, raceVars, powerVars, displayVars>>

SpecTimers == InitTimers /\ [][NextTimers]_vars

\* ---- the day sent with the dashboard queries
InitToday ==
    /\ clock \in [now : Instants, tz : BrowserOffsets]
    /\ dayQuery = NoQuery
    /\ examDay = FreshExamDay
    /\ SessionIdle /\ DashIdle /\ StatusIdle /\ SearchIdle /\ JournalIdle /\ FormIdle /\ TimerIdle /\ DurIdle /\ ExportIdle /\ AdminIdle /\ NoticeIdle /\ CellIdle /\ SyncIdle /\ RaceIdle /\ PowerIdle /\ DisplayIdle

NextToday ==
    \/ /\ ClockTick
       /\ UNCHANGED <<sessionVars, dashVars, statusVars, searchVars, journalVars, formVars, timerVars, durVars, exportVars, adminVars, noticeVars, cellVars, syncVars, raceVars, powerVars, displayVars>>
    \/ /\ \E rev \in DashRevisions : DashQuery(rev)
       /\ UNCHANGED <<sessionVars, dashVars, statusVars, searchVars, journalVars, formVars, timerVars, durVars, exportVars, adminVars, noticeVars, cellVars, syncVars, raceVars, powerVars, displayVars>>

SpecToday == InitToday /\ [][NextToday]_vars

\* ---- the daily exam list
InitExamDay ==
    /\ clock \in [now : Instants, tz : {TashkentOffset}]
    /\ dayQuery = NoQuery
    /\ examDay = FreshExamDay
    /\ SessionIdle /\ DashIdle /\ StatusIdle /\ SearchIdle /\ JournalIdle /\ FormIdle /\ TimerIdle /\ DurIdle /\ ExportIdle /\ AdminIdle /\ NoticeIdle /\ CellIdle /\ SyncIdle /\ RaceIdle /\ PowerIdle /\ DisplayIdle

NextExamDay ==
    \/ /\ ClockTick
       /\ UNCHANGED <<sessionVars, dashVars, statusVars, searchVars, journalVars, formVars, timerVars, durVars, exportVars, adminVars, noticeVars, cellVars, syncVars, raceVars, powerVars, displayVars>>
    \/ /\ \E day \in DayProps, data \in ExamResponses : ExamsLoaded(day, data)
       /\ UNCHANGED <<sessionVars, dashVars, statusVars, searchVars, journalVars, formVars, timerVars, durVars, exportVars, adminVars, noticeVars, cellVars, syncVars, raceVars, powerVars, displayVars>>
    \/ /\ ExamsFailed
       /\ UNCHANGED <<sessionVars, dashVars, statusVars, searchVars, journalVars, formVars, timerVars, durVars, exportVars, adminVars, noticeVars, cellVars, syncVars, raceVars, powerVars, displayVars>>

SpecExamDay == InitExamDay /\ [][NextExamDay]_vars

\* ---- the duration cell
InitDuration ==
    /\ totalMinutes \in 0..MaxMinutes
    /\ durationCell = Null
    /\ SessionIdle /\ DashIdle /\ StatusIdle /\ SearchIdle /\ JournalIdle /\ FormIdle /\ TimerIdle /\ DayIdle /\ ExportIdle /\ AdminIdle /\ NoticeIdle /\ CellIdle /\ SyncIdle /\ RaceIdle /\ PowerIdle /\ DisplayIdle

NextDuration ==
    \/ /\ \E min \in 0..MaxMinutes : SetTotalMinutes(min)
       /\ UNCHANGED <<sessionVars, dashVars, statusVars, searchVars, journalVars, formVars, timerVars, dayVars, exportVars, adminVars, noticeVars, cellVars, syncVars, raceVars, powerVars, displayVars>>
    \/ /\ RenderDuration
       /\ UNCHANGED <<sessionVars, dashVars, statusVars, searchVars, journalVars, formVars, timerVars, dayVars, exportVars, adminVars, noticeVars, cellVars, syncVars, raceVars, powerVars, displayVars>>

SpecDuration == InitDuration /\ [][NextDuration]_vars

\* ---- the export buttons
InitExport ==
    /\ exporter \in {FreshExporter(v) : v \in ExportViews}
    /\ exported = NoExport
    /\ SessionIdle /\ DashIdle /\ StatusIdle /\ SearchIdle /\ JournalIdle /\ FormIdle /\ TimerIdle /\ DayIdle /\ DurIdle /\ AdminIdle /\ NoticeIdle /\ CellIdle /\ SyncIdle /\ RaceIdle /\ PowerIdle /\ DisplayIdle

NextExport ==
    \/ /\ ViewLoad
       /\ UNCHANGED <<sessionVars, dashVars, statusVars, searchVars, journalVars, formVars, timerVars, dayVars, durVars, adminVars, noticeVars, cellVars, syncVars, raceVars, powerVars, displayVars>>
    \/ /\ \E n \in RowCounts(exporter.view) : ViewLoaded(n)
       /\ UNCHANGED <<sessionVars, dashVars, statusVars, searchVars, journalVars, formVars, timerVars, dayVars, durVars, adminVars, noticeVars, cellVars, syncVars, raceVars, powerVars, displayVars>>
    \/ /\ ViewFailed
       /\ UNCHANGED <<sessionVars, dashVars, statusVars, searchVars, journalVars, formVars, timerVars, dayVars, durVars, adminVars, noticeVars, cellVars, syncVars, raceVars, powerVars, displayVars>>
    \/ /\ \E n \in RowCounts("ReportsPage") : ReportSearch(n)
       /\ UNCHANGED <<sessionVars, dashVars, statusVars, searchVars, journalVars, formVars, timerVars, dayVars, durVars, adminVars, noticeVars, cellVars, syncVars, raceVars, powerVars, displayVars>>
    \/ /\ \E kind \in ExportKinds : ExportClick(kind)
       /\ UNCHANGED <<sessionVars, dashVars, statusVars, searchVars, journalVars, formVars, timerVars, dayVars, durVars, adminVars, noticeVars, cellVars, syncVars, raceVars, powerVars, displayVars>>

SpecExport == InitExport /\ [][NextExport]_vars

\* ---- the dialogs of AdminUsersPage
InitAdmin ==
    /\ adminForm = EmptyAdminForm
    /\ adminRequest = NoRequest
    /\ SessionIdle /\ StatusIdle /\ DashIdle /\ SearchIdle /\ JournalIdle /\ FormIdle /\ TimerIdle /\ DayIdle /\ DurIdle /\ ExportIdle /\ NoticeIdle /\ CellIdle /\ SyncIdle /\ RaceIdle /\ PowerIdle /\ DisplayIdle

NextAdmin ==
    \/ /\ \E u \in Usernames, p \in PasswordLengths : SetNewUser(u, p)
       /\ UNCHANGED <<sessionVars, dashVars, statusVars, searchVars, journalVars, formVars, timerVars, dayVars, durVars, exportVars, noticeVars, cellVars, syncVars, raceVars, powerVars, displayVars>>
    \/ /\ \E p \in PasswordLengths : SetNewPass(p)
       /\ UNCHANGED <<sessionVars, dashVars, statusVars, searchVars, journalVars, formVars, timerVars, dayVars, durVars, exportVars, noticeVars, cellVars, syncVars, raceVars, powerVars, displayVars>>
    \/ /\ handleCreate
       /\ UNCHANGED <<sessionVars, dashVars, statusVars, searchVars, journalVars, formVars, timerVars, dayVars, durVars, exportVars, noticeVars, cellVars, syncVars, raceVars, powerVars, displayVars>>
    \/ /\ handleReset
       /\ UNCHANGED <<sessionVars, dashVars, statusVars, searchVars, journalVars, formVars, timerVars, dayVars, durVars, exportVars, noticeVars, cellVars, syncVars, raceVars, powerVars, displayVars>>
    \/ /\ \E ok \in BOOLEAN : AdminSettled(ok)
       /\ UNCHANGED <<sessionVars, dashVars, statusVars, searchVars, journalVars, formVars, timerVars, dayVars, durVars, exportVars, noticeVars, cellVars, syncVars, raceVars, powerVars, displayVars>>

SpecAdmin == InitAdmin /\ [][NextAdmin]_vars

\* ---- failed fetches and submits
InitNotice ==
    /\ failed = [s \in CallSites |-> Null]
    /\ surfaced = [s \in CallSites |-> NoNotice]
    /\ SessionIdle /\ StatusIdle /\ DashIdle /\ SearchIdle /\ JournalIdle /\ FormIdle /\ TimerIdle /\ DayIdle /\ DurIdle /\ ExportIdle /\ AdminIdle /\ CellIdle /\ SyncIdle /\ RaceIdle /\ PowerIdle /\ DisplayIdle

NextNotice ==
    \/ /\ \E site \in CallSites, message \in ErrorMessages : CallFailed(site, message)
       /\ UNCHANGED <<sessionVars, dashVars, statusVars, searchVars, journalVars, formVars, timerVars, dayVars, durVars, exportVars, adminVars, cellVars, syncVars, raceVars, powerVars, displayVars>>
    \/ /\ \E site \in CallSites : CallSucceeded(site)
       /\ UNCHANGED <<sessionVars, dashVars, statusVars, searchVars, journalVars, formVars, timerVars, dayVars, durVars, exportVars, adminVars, cellVars, syncVars, raceVars, powerVars, displayVars>>

SpecNotice == InitNotice /\ [][NextNotice]_vars

\* ---- the time cells
InitTimeCell ==
    /\ cellTs \in CellTimestamps
    /\ cellText = NotRendered
    /\ clock \in [now : {0}, tz : BrowserOffsets]
    /\ dayQuery = NoQuery
    /\ examDay = FreshExamDay
    /\ SessionIdle /\ StatusIdle /\ DashIdle /\ SearchIdle /\ JournalIdle /\ FormIdle /\ TimerIdle /\ DurIdle /\ ExportIdle /\ AdminIdle /\ NoticeIdle /\ SyncIdle /\ RaceIdle /\ PowerIdle /\ DisplayIdle

NextTimeCell ==
    \/ /\ \E ts \in CellTimestamps : SetCellTs(ts)
       /\ UNCHANGED <<sessionVars, dashVars, statusVars, searchVars, journalVars, formVars, timerVars, dayVars, durVars, exportVars, adminVars, noticeVars, syncVars, raceVars, powerVars, displayVars>>
    \/ /\ RenderTimeCell
       /\ UNCHANGED <<sessionVars, dashVars, statusVars, searchVars, journalVars, formVars, timerVars, dayVars, durVars, exportVars, adminVars, noticeVars, syncVars, raceVars, powerVars, displayVars>>

SpecTimeCell == InitTimeCell /\ [][NextTimeCell]_vars

\* ---- the sync calls
InitSync ==
    /\ SyncIdle
    /\ SessionIdle /\ StatusIdle /\ DashIdle /\ SearchIdle /\ JournalIdle /\ FormIdle /\ TimerIdle /\ DayIdle /\ DurIdle /\ ExportIdle /\ AdminIdle /\ NoticeIdle /\ CellIdle /\ RaceIdle /\ PowerIdle /\ DisplayIdle

NextSync ==
    \/ /\ \E c \in SyncCalls : SyncSend(c)
       /\ UNCHANGED <<sessionVars, dashVars, statusVars, searchVars, journalVars, formVars, timerVars, dayVars, durVars, exportVars, adminVars, noticeVars, cellVars, raceVars, powerVars, displayVars>>
    \/ /\ \E c \in SyncCalls : SyncWait(c)
       /\ UNCHANGED <<sessionVars, dashVars, statusVars, searchVars, journalVars, formVars, timerVars, dayVars, durVars, exportVars, adminVars, noticeVars, cellVars, raceVars, powerVars, displayVars>>
    \/ /\ \E c \in SyncCalls, ok \in BOOLEAN : SyncSettled(c, ok)
       /\ UNCHANGED <<sessionVars, dashVars, statusVars, searchVars, journalVars, formVars, timerVars, dayVars, durVars, exportVars, adminVars, noticeVars, cellVars, raceVars, powerVars, displayVars>>

SpecSync == InitSync /\ [][NextSync]_vars

\* ---- overlapping fetches
InitRace ==
    /\ race \in {FreshRace(v) : v \in RaceViews}
    /\ SessionIdle /\ StatusIdle /\ DashIdle /\ SearchIdle /\ JournalIdle /\ FormIdle /\ TimerIdle /\ DayIdle /\ DurIdle /\ ExportIdle /\ AdminIdle /\ NoticeIdle /\ CellIdle /\ SyncIdle /\ PowerIdle /\ DisplayIdle

NextRace ==
    \/ /\ FetchIssue
       /\ UNCHANGED <<sessionVars, dashVars, statusVars, searchVars, journalVars, formVars, timerVars, dayVars, durVars, exportVars, adminVars, noticeVars, cellVars, syncVars, powerVars, displayVars>>
    \/ /\ \E id \in 1..MaxFetches : FetchAnswered(id)
       /\ UNCHANGED <<sessionVars, dashVars, statusVars, searchVars, journalVars, formVars, timerVars, dayVars, durVars, exportVars, adminVars, noticeVars, cellVars, syncVars, powerVars, displayVars>>
    \/ /\ \E id \in 1..MaxFetches : FetchRejected(id)
       /\ UNCHANGED <<sessionVars, dashVars, statusVars, searchVars, journalVars, formVars, timerVars, dayVars, durVars, exportVars, adminVars, noticeVars, cellVars, syncVars, powerVars, displayVars>>

SpecRace == InitRace /\ [][NextRace]_vars

\* ---- the device power dialog
InitPower ==
    /\ power = FreshPower
    /\ SessionIdle /\ StatusIdle /\ DashIdle /\ SearchIdle /\ JournalIdle /\ FormIdle /\ TimerIdle /\ DayIdle /\ DurIdle /\ ExportIdle /\ AdminIdle /\ NoticeIdle /\ CellIdle /\ SyncIdle /\ RaceIdle /\ DisplayIdle

NextPower ==
    \/ /\ \E device \in DeviceIds, nextActive \in BOOLEAN : openPowerDialog(device, nextActive)
       /\ UNCHANGED <<sessionVars, dashVars, statusVars, searchVars, journalVars, formVars, timerVars, dayVars, durVars, exportVars, adminVars, noticeVars, cellVars, syncVars, raceVars, displayVars>>
    \/ /\ DialogClose
       /\ UNCHANGED <<sessionVars, dashVars, statusVars, searchVars, journalVars, formVars, timerVars, dayVars, durVars, exportVars, adminVars, noticeVars, cellVars, syncVars, raceVars, displayVars>>
    \/ /\ CancelClick
       /\ UNCHANGED <<sessionVars, dashVars, statusVars, searchVars, journalVars, formVars, timerVars, dayVars, durVars, exportVars, adminVars, noticeVars, cellVars, syncVars, raceVars, displayVars>>
    \/ /\ \E text \in PowerPasswords : SetPowerPassword(text)
       /\ UNCHANGED <<sessionVars, dashVars, statusVars, searchVars, journalVars, formVars, timerVars, dayVars, durVars, exportVars, adminVars, noticeVars, cellVars, syncVars, raceVars, displayVars>>
    \/ /\ ToggleShowPassword
       /\ UNCHANGED <<sessionVars, dashVars, statusVars, searchVars, journalVars, formVars, timerVars, dayVars, durVars, exportVars, adminVars, noticeVars, cellVars, syncVars, raceVars, displayVars>>
    \/ /\ \E byKey \in BOOLEAN : savePowerState(byKey)
       /\ UNCHANGED <<sessionVars, dashVars, statusVars, searchVars, journalVars, formVars, timerVars, dayVars, durVars, exportVars, adminVars, noticeVars, cellVars, syncVars, raceVars, displayVars>>
    \/ /\ PowerToggled
       /\ UNCHANGED <<sessionVars, dashVars, statusVars, searchVars, journalVars, formVars, timerVars, dayVars, durVars, exportVars, adminVars, noticeVars, cellVars, syncVars, raceVars, displayVars>>
    \/ /\ PowerReloaded
       /\ UNCHANGED <<sessionVars, dashVars, statusVars, searchVars, journalVars, formVars, timerVars, dayVars, durVars, exportVars, adminVars, noticeVars, cellVars, syncVars, raceVars, displayVars>>
    \/ /\ \E message \in {"Invalid control password", "HTTP 500", ""} : PowerRejected(message)
       /\ UNCHANGED <<sessionVars, dashVars, statusVars, searchVars, journalVars, formVars, timerVars, dayVars, durVars, exportVars, adminVars, noticeVars, cellVars, syncVars, raceVars, displayVars>>

SpecPower == InitPower /\ [][NextPower]_vars

\* ---- data kept on screen across polls
InitDisplay ==
    /\ display = FreshDisplay
    /\ SessionIdle /\ StatusIdle /\ DashIdle /\ SearchIdle /\ JournalIdle /\ FormIdle /\ TimerIdle /\ DayIdle /\ DurIdle /\ ExportIdle /\ AdminIdle /\ NoticeIdle /\ CellIdle /\ SyncIdle /\ RaceIdle /\ PowerIdle

NextDisplay ==
    \/ /\ \E d \in DataSets, data \in Snapshots : DataLoaded(d, data)
       /\ UNCHANGED <<sessionVars, dashVars, statusVars, searchVars, journalVars, formVars, timerVars, dayVars, durVars, exportVars, adminVars, noticeVars, cellVars, syncVars, raceVars, powerVars>>
    \/ /\ \E d \in DataSets : DataFailed(d)
       /\ UNCHANGED <<sessionVars, dashVars, statusVars, searchVars, journalVars, formVars, timerVars, dayVars, durVars, exportVars, adminVars, noticeVars, cellVars, syncVars, raceVars, powerVars>>

SpecDisplay == InitDisplay /\ [][NextDisplay]_vars

(***************************************************************************)
(* Properties                                                              *)
(***************************************************************************)

\* ---- C1 (SPECIFICATION Spec)
\* C1: whenever an apiClient call settles with HTTP status 401, the token is
\* gone from localStorage, the browser is at /login and the call is rejected.
C1_UnauthorizedClearsSession ==
    [][\A id \in 1..MaxCalls :
          (calls[id].pc = "inflight" /\ calls'[id].pc = "done" /\ calls'[id].status = 401)
              => /\ storage'.token = Null
                 /\ href' = "/login"
                 /\ calls'[id].outcome = "rejected"]_vars

\* a call that carried a bearer token came back with 401
C1_Witness ==
    \E id \in 1..MaxCalls :
        /\ calls[id].pc = "done" /\ calls[id].status = 401
        /\ calls[id].auth # Null
        /\ calls[id].outcome = "rejected"
        /\ storage.token = Null /\ href = "/login"

\* ---- C2 (SPECIFICATION SpecDashboard)
\* the instant of a row's last activity; a row with neither timestamp has NoTs
LastActivity(r) == Max(r.last_in, r.last_out)

\* C2: the displayed summary is ordered descending by last activity
\* max(last_in, last_out), rows with neither timestamp last.
C2_SortedByLastActivity ==
    \A i, j \in 1..Len(summary) :
        i < j => LastActivity(summary[i]) >= LastActivity(summary[j])

C4_OutsideKpiExcludesInside ==
    dashRev \in {"part_004", "part_005"}
        => OutsideKpi = Cardinality({i \in 1..Len(summary) :
                                        /\ summary[i].last_in # NoTs
                                        /\ ~summary[i].is_inside})

\* ---- C5 (SPECIFICATION SpecStatus)
\* C5: the displayed status of any result string is one of the three labels
\* passed, review, failed, and an unrecognized string is displayed as review.
C5_DisplayStatusClosed ==
    statusView \in {"MedicalExamList", "EsmoJournalPage"}
        => /\ shownStatus.kind = "label"
           /\ shownStatus.key \in {"passed", "review", "failed"}
           /\ toLowerCase(examResult) \notin Recognized => shownStatus.key = "review"

\* ---- C6 (SPECIFICATION SpecStatus)
\* C6: in every view the colour is ACCEPTED, WARNING or REJECTED; ACCEPTED only
\* for a result that lower-cases to "passed"; WARNING for every review variant
\* and every unrecognized value.
C6_ColourClosed ==
    statusView # "none"
        => /\ colorStatus \in {"ACCEPTED", "WARNING", "REJECTED"}
           /\ colorStatus = "ACCEPTED" => toLowerCase(examResult) = S_passed
           /\ (toLowerCase(examResult) \in ReviewVariants
               \/ toLowerCase(examResult) \notin Recognized)
                  => colorStatus = "WARNING"

\* ---- C7, C8 (SPECIFICATION SpecSearch)
\* where the terms of a query start: a non-blank character at the start of the
\* query or right after a blank
TermStarts(q) == {i \in 1..Len(q) : q[i] # " " /\ (i = 1 \/ q[i - 1] = " ")}

\* the term that starts at position i: the longest run without a blank
TermAt(q, i) ==
    SubSeq(q, i, CHOOSE j \in i..Len(q) :
                    /\ \A k \in i..j : q[k] # " "
                    /\ (j = Len(q) \/ q[j + 1] = " "))

TermSet(q) == {TermAt(q, i) : i \in TermStarts(q)}

TermCount(q, t) == Cardinality({i \in TermStarts(q) : TermAt(q, i) = t})

\* the two queries are made of the same terms, in any order
SameTerms(q1, q2) ==
    \A t \in TermSet(q1) \cup TermSet(q2) : TermCount(q1, t) = TermCount(q2, t)

\* C7: two queries made of the same terms in a different order select the same
\* rows, on the dashboard tables, the exam list and the employees table.
C7_SearchCommutative ==
    \A q \in Queries :
        (SameTerms(q, searchQuery) /\ Cardinality(TermStarts(q)) >= 2)
            => /\ filteredSummary(q) = filteredSummary(searchQuery)
               /\ filteredDebts(q) = filteredDebts(searchQuery)
               /\ filteredExams(q) = filteredExams(searchQuery)
               /\ filteredEmployees(q) = filteredEmployees(searchQuery)

\* the two characters are the same letter, whatever their case
SameLetter(a, b) == UpperChar(a) = UpperChar(b)

\* term occurs in text when letter case is ignored
OccursIn(term, text) ==
    \E i \in 0..(Len(text) - Len(term)) :
        \A k \in 1..Len(term) : SameLetter(text[i + k], term[k])

\* every term of the query occurs in the text (true of a query without terms)
AllTermsOccur(q, text) == \A i \in TermStarts(q) : OccursIn(TermAt(q, i), text)

\* the employee number an exam row carries, empty when it has no employee
ExamEmployeeNo(exam) == IF exam.has_employee THEN exam.employee.employee_no ELSE <<>>

C9_SearchResetsPages ==
    [][searchQuery' # searchQuery
          => page' = 0 /\ debtsPage' = 0 /\ examPage' = 0 /\ empPage' = 0]_vars

\* ---- C10 (SPECIFICATION SpecJournal)
\* the data lines of a CSV text: its lines, the header line not counted
CsvDataLines(text) == Cardinality({i \in 1..Len(text) : text[i] = "\n"})

\* C10: an exported CSV has exactly one data line per row the journal holds,
\* whatever page and page size the grid shows.
C10_CsvHasEveryRow ==
    download.kind = "csv" => CsvDataLines(download.text) = Len(journal.rows)

\* a file was exported while the grid showed its second page
C10_Witness ==
    /\ download.kind = "csv"
    /\ journal.gridPage > 0
    /\ Len(journal.rows) > journal.gridPageSize
    /\ CsvDataLines(download.text) = Len(journal.rows)

\* ---- C11 (SPECIFICATION SpecJournal)
\* C11: while a fetch of the journal is outstanding, the loading indicator is
\* on and the export buttons are disabled.
C11_LoadingWhileOutstanding ==
    journal.pending > 0 => journal.loading /\ ExportDisabled

\* ---- C12 (SPECIFICATION SpecSubmit)
\* C12: for each submit action at most one request is outstanding at any time.
C12_OneSubmitInFlight ==
    \A a \in SubmitActions : submits[a].outstanding <= 1

\* ---- C13 (SPECIFICATION SpecTimers)
\* C13: a view that is torn down has no running timer, a mounted view has only
\* the timer of its last effect run, and a timer that fires belongs to a
\* mounted view.
C13_TimersCancelled ==
    [][/\ \A v \in PollingViews :
             pollers'[v].live \subseteq (IF pollers'[v].mounted THEN {pollers'[v].runs}
                                         ELSE {})
       /\ polled' # polled
             => /\ pollers[polled'.view].mounted
                /\ polled'.timer = pollers[polled'.view].runs]_vars

\* a view whose effect ran twice was torn down after its timer had fired
C13_Witness ==
    \E v \in RerunViews :
        /\ ~pollers[v].mounted /\ pollers[v].runs = 2 /\ pollers[v].live = {}
        /\ polled.view = v

\* ---- C14 (SPECIFICATION SpecToday)
\* C14: the day string a dashboard load sends with its queries is the
\* Asia/Tashkent civil day of the instant of the load, whatever the zone of
\* the browser.
C14_QueryDayIsTashkentDay ==
    [][dayQuery' # dayQuery
          => dayQuery'.day = formatYmd(CivilDate(clock.now, TashkentOffset))]_vars

\* ---- C15 (SPECIFICATION SpecExamDay)
\* C15: every exam kept in the daily exam list, and so counted in the stats,
\* denotes an instant whose Asia/Tashkent day is the target day.
C15_KeptExamsAreOfTargetDay ==
    /\ \A i \in 1..Len(examDay.exams) :
          /\ examDay.exams[i].timestamp.form # "bad"
          /\ formatYmd(CivilDate(examDay.exams[i].timestamp.instant, TashkentOffset))
                = examDay.targetDay
    /\ examDay.stats.total = Len(examDay.exams)

\* ---- C16 (SPECIFICATION Spec)
\* C16: when the response of an apiClient call has a status that is neither
\* 2xx nor 401, the call is rejected with the body text as message, or with
\* "HTTP <status>" when the body is empty; token and location stay as they are.
C16_ErrorMessageFromBody ==
    [][\A id \in 1..MaxCalls, st \in Statuses, b \in Bodies :
          (st # 401 /\ (st < 200 \/ st > 299) /\ RequestSettle(id, st, b))
              => /\ calls'[id].outcome = "rejected"
                 /\ calls'[id].message = (IF b = "" THEN "HTTP " \o ToString(st) ELSE b)
                 /\ storage' = storage
                 /\ href' = href]_vars

\* a logged-in call was answered 500 with an empty body, another with a body
C16_Witness ==
    /\ storage.token # Null
    /\ href = "/dashboard"
    /\ \E i, j \in 1..MaxCalls :
          /\ calls[i].pc = "done" /\ calls[i].status = 500 /\ calls[i].message = "HTTP 500"
          /\ calls[j].pc = "done" /\ calls[j].status = 500 /\ calls[j].message = "detail"

\* ---- C17 (SPECIFICATION Spec)
\* C17: a request that is sent carries Authorization: Bearer <token> exactly
\* when localStorage holds a token at the moment of the call.
C17_BearerIffTokenStored ==
    [][\A id \in 1..MaxCalls :
          (calls[id].pc # "inflight" /\ calls'[id].pc = "inflight")
              => calls'[id].auth = (IF storage.token # Null
                                    THEN "Bearer " \o storage.token ELSE Null)]_vars

\* one request went out with the token; the token was then removed and the
\* next request went out without the header
C17_Witness ==
    /\ storage.token = Null
    /\ \E i, j \in 1..MaxCalls :
          /\ calls[i].pc = "done" /\ calls[i].auth = "Bearer tokA"
          /\ calls[j].pc = "inflight" /\ calls[j].auth = Null

\* ---- C18 (SPECIFICATION Spec)
\* C18: an apiClient call makes exactly one network attempt, whatever its
\* outcome; a call that has ended is not sent again.
C18_SingleAttempt ==
    \A id \in 1..MaxCalls :
        calls[id].attempts = (IF calls[id].pc = "idle" THEN 0 ELSE 1)

\* a call ended by a transport error and a call ended by an error response
C18_Witness ==
    \E i, j \in 1..MaxCalls :
        /\ calls[i].pc = "done" /\ calls[i].message = "network" /\ calls[i].attempts = 1
        /\ calls[j].pc = "done" /\ calls[j].status = 500 /\ calls[j].attempts = 1

\* ---- C19 (SPECIFICATION SpecDuration)
\* C19: for a non-negative number of minutes the duration cell reads
\* "<h>h <m>m" where 60*h + m is the number of minutes and 0 <= m < 60;
\* 125 minutes read "2h 5m".
C19_DurationSplitsMinutes ==
    /\ durationCell # Null =>
          \E h \in 0..MaxMinutes, m \in 0..59 :
              /\ 60 * h + m = totalMinutes
              /\ durationCell = ToString(h) \o "h " \o ToString(m) \o "m"
    /\ (totalMinutes = 125 /\ durationCell # Null) => durationCell = "2h 5m"

\* the row of 125 minutes is rendered
C19_Witness == totalMinutes = 125 /\ durationCell = "2h 5m"

\* ---- C20 (SPECIFICATION SpecExport)
\* C20: while the row set of an exporting page is empty its export buttons
\* are disabled, and no file is ever produced from an empty row set.
C20_NoExportOfEmptyRows ==
    /\ exporter.rows = 0 => \A kind \in ExportKinds : ~ENABLED ExportClick(kind)
    /\ exported # NoExport => exported.rows > 0

\* a report was exported, then a search emptied the row set: the buttons are
\* disabled although data is loaded and nothing is loading
C20_Witness ==
    /\ exporter.view = "ReportsPage" /\ exporter.hasData /\ ~exporter.loading
    /\ exporter.rows = 0
    /\ exported.view = "ReportsPage" /\ exported.rows > 0

\* ---- C21 (SPECIFICATION SpecAdmin)
\* C21: a create-user request in flight carries a trimmed username of at
\* least 3 characters and a password of at least 6; a reset-password request
\* in flight carries a password of at least 6 characters.
C21_RequestsPassLengthChecks ==
    /\ adminRequest.kind = "createUser"
          => Len(adminRequest.username) >= 3 /\ adminRequest.password >= 6
    /\ adminRequest.kind = "resetPassword" => adminRequest.password >= 6

\* ---- C22 (SPECIFICATION SpecNotice)
\* C22: whenever the last call of a call site failed, the page shows an alert
\* or a banner for it.
C22_FailuresSurfaced ==
    \A site \in CallSites :
        failed[site] # Null => surfaced[site].kind \in {"alert", "banner"}

\* ---- C23 (SPECIFICATION SpecTimeCell)
\* C23: a time cell of a null or empty timestamp shows an em dash, and no
\* time cell shows the text "Invalid Date".
C23_MissingTimeIsDash ==
    cellText # NotRendered =>
        /\ cellTs.form \in {"null", "empty"} => cellText = EmDash
        /\ cellText # Text("Invalid Date")

\* ---- C24 (SPECIFICATION SpecSync)
\* C24: a sync call is not pending any more once 120 seconds (2 minutes) have
\* passed since it was sent.
C24_SyncBoundedByTimeout ==
    \A c \in SyncCalls : syncs[c].pc = "pending" => syncs[c].waited <= 2

\* ---- C25 (SPECIFICATION SpecRace)
\* C25: issuing a fetch cancels none of the outstanding ones, and the rows on
\* display are always those of the response that arrived last, whatever the
\* age of its request.
C25_LastArrivalWins ==
    [][/\ race'.issued > race.issued => race.outstanding \subseteq race'.outstanding
       /\ Len(race'.arrived) > Len(race.arrived)
             => race'.shown = race'.arrived[Len(race'.arrived)]]_vars

\* the response of an older fetch arrived after that of a newer one and is
\* the one on display
C25_Witness ==
    \E i, j \in 1..Len(race.arrived) :
        /\ i < j /\ j = Len(race.arrived)
        /\ race.arrived[i] > race.arrived[j]
        /\ race.shown = race.arrived[j]

\* ---- C26 (SPECIFICATION SpecExamDay)
\* C26: after a successful exam load the stats handed to onStatsChange
\* partition the exams of the day: an exam whose result is neither a passed
\* nor a failed variant is counted as review, and passed + review + failed
\* equals total.
C26_StatsPartitionExams ==
    /\ examDay.stats.passed + examDay.stats.review + examDay.stats.failed
          = examDay.stats.total
    /\ examDay.stats.review
          = Cardinality({i \in 1..Len(examDay.exams) :
                toLowerCase(examDay.exams[i].result) \notin ({S_passed} \cup FailedVariants)})

\* ---- C27 (SPECIFICATION SpecPaging)
\* C27: after any sequence of refreshes, search changes, page changes and
\* rows-per-page changes, once the effects of the step have run, the page index
\* of every paginated table is at most max(0, ceil(n / rowsPerPage) - 1), n
\* being the number of filtered rows of that table.
C27_PageWithinRange ==
    /\ href = "/dashboard"
          => /\ page <= LastPage(Len(filteredSummary(searchQuery)), rowsPerPage)
             /\ debtsPage <= LastPage(Len(filteredDebts(searchQuery)), debtsRowsPerPage)
             /\ examPage <= LastPage(Len(filteredExams(searchQuery)), examRowsPerPage)
    /\ href = "/employees"
          => empPage <= LastPage(Len(filteredEmployees(searchQuery)), empRowsPerPage)

\* ---- C28 (SPECIFICATION SpecPower)
\* C28: when a power-toggle request completes the saving flag is false again;
\* the dialog is closed (no dialog device, password cleared) exactly when the
\* request succeeded, and after a failure it is still open on the same device
\* and target state. While the request is in flight no step, cancel and
\* backdrop-close included, closes the dialog or changes its device or target.
C28_DialogFollowsOutcome ==
    [][/\ (power.powerSaving /\ power'.request.pc = "idle")
            => /\ ~power'.powerSaving
               /\ power'.result \in {"ok", "failed"}
               /\ (power'.dialogDevice = 0 /\ power'.powerPassword = "")
                     <=> power'.result = "ok"
               /\ power'.result = "failed"
                     => /\ power'.dialogDevice = power.request.device
                        /\ power'.dialogTargetActive = power.request.target
       /\ (power.powerSaving /\ power'.request.pc # "idle")
            => /\ power'.powerSaving
               /\ power'.dialogDevice = power.dialogDevice
               /\ power'.dialogTargetActive = power.dialogTargetActive]_vars

\* a request that succeeded has closed the dialog
C28_Witness ==
    /\ power.result = "ok"
    /\ power.dialogDevice = 0
    /\ power.powerPassword = ""
    /\ ~power.powerSaving

\* ---- C29 (SPECIFICATION Spec)
\* C29: after any sequence of logins, logouts and API calls, calls answered
\* with 401 included, minetrack_user is in storage only if minetrack_token is.
C29_UserOnlyWithToken ==
    storage.user # Null => storage.token # Null

\* ---- C30 (SPECIFICATION SpecDisplay)
\* C30: whatever polls and reloads have failed, the device list, the daily
\* summary, the tool debts, the exams and the blocked-attempt count each hold
\* the value of their last successful fetch.
C30_FailureKeepsData ==
    \A d \in DataSets : display.value[d] = display.lastOk[d]

====
